---- MODULE Spec2Model ----
(***************************************************************************)
(* A model of the FlowChat MCP tool gateway: the tool registry filled at   *)
(* import time, the parameter validator, the tool-call endpoint, the       *)
(* dispatcher's error classification, the retry wrapper around the         *)
(* outbound helpers and the domain / workflow handlers.                    *)
(***************************************************************************)
EXTENDS Integers, Sequences, FiniteSets, TLC

\* ------------------------------------------------------------------------
\* Python / JSON values carried by params
\* ------------------------------------------------------------------------
\* A value is a record [t, v]: t is the Python type name (type(value).__name__)
\* and v the payload.  A float is written by its integral payload (1 is 1.0).
StrV(s) == [t |-> "str", v |-> s]
IntV(i) == [t |-> "int", v |-> i]
FloatV(i) == [t |-> "float", v |-> i]
BoolV(b) == [t |-> "bool", v |-> b]
NullV == [t |-> "NoneType", v |-> 0]
DictV == [t |-> "dict", v |-> 0]
ListV == [t |-> "list", v |-> 0]

\* isinstance(value, cls): in Python bool is a subclass of int.
IsInstance(value, cls) ==
    IF cls = "int" THEN value.t \in {"int", "bool"} ELSE value.t = cls

\* The numeric value of an int, float or bool (True is 1, False is 0).
NumOf(value) == IF value.t = "bool" THEN (IF value.v THEN 1 ELSE 0) ELSE value.v

\* Python's == between two values, as used by "value not in enum_values".
PyEq(a, b) ==
    IF a.t \in {"int", "float", "bool"} /\ b.t \in {"int", "float", "bool"}
    THEN NumOf(a) = NumOf(b)
    ELSE a = b

\* bool(value)
Truthy(value) ==
    CASE value.t = "NoneType" -> FALSE
      [] value.t = "bool" -> value.v
      [] value.t \in {"int", "float"} -> value.v # 0
      [] value.t = "str" -> value.v # ""
      [] OTHER -> TRUE

\* params is a dict: a sequence of [k, v] pairs with distinct keys, in
\* insertion order.
Keys(params) == {params[i].k : i \in 1..Len(params)}
Has(params, field) == field \in Keys(params)
\* params.get(field): the value, or None when the key is absent
Get(params, field) ==
    IF Has(params, field)
    THEN (CHOOSE e \in {params[i] : i \in 1..Len(params)} : e.k = field).v
    ELSE NullV

\* ------------------------------------------------------------------------
\* Tool schemas
\* ------------------------------------------------------------------------
\* One entry of input_schema["properties"]; enum = {} when the key is absent.
Prop(type, enum) == [type |-> type, enum |-> enum]

\* The ToolSchema objects, by defining module and tool name.
ToolSchema(m, n) ==
    CASE m = "entreprises" /\ n = "search_entreprise_with_stats" ->   \* tools/entreprises.py:30-49
        [required |-> <<"search_term">>,
         properties |-> ("search_term" :> Prop("string", {})) @@ ("limit" :> Prop("integer", {}))]
    [] m = "entreprises" /\ n = "get_entreprise_by_id" ->   \* tools/entreprises.py:51-65
        [required |-> <<"entreprise_id">>,
         properties |-> ("entreprise_id" :> Prop("string", {}))]
    [] m = "entreprises" /\ n = "list_entreprises" ->   \* tools/entreprises.py:67-87
        [required |-> <<>>,
         properties |-> ("limit" :> Prop("integer", {})) @@ ("offset" :> Prop("integer", {}))]
    [] m = "entreprises" /\ n = "get_stats_entreprises" ->   \* tools/entreprises.py:89-98
        [required |-> <<>>,
         properties |-> << >>]
    [] m = "entreprises" /\ n = "upsert_entreprise" ->   \* tools/entreprises.py:100-130
        [required |-> <<"nom">>,
         properties |-> ("nom" :> Prop("string", {})) @@ ("email" :> Prop("string", {})) @@ ("telephone" :> Prop("string", {})) @@ ("adresse" :> Prop("string", {})) @@ ("notes" :> Prop("string", {}))]
    [] m = "qualifications" /\ n = "get_entreprise_qualifications" ->   \* tools/qualifications.py:25-39
        [required |-> <<"entreprise_id">>,
         properties |-> ("entreprise_id" :> Prop("string", {}))]
    [] m = "qualifications" /\ n = "search_qualifications" ->   \* tools/qualifications.py:41-69
        [required |-> <<>>,
         properties |-> ("statut" :> Prop("string", {StrV("Nouveau"), StrV("Qualifie"), StrV("BC envoye"), StrV("Paye"), StrV("Termine"), StrV("Annule")})) @@ ("start_date" :> Prop("string", {})) @@ ("end_date" :> Prop("string", {})) @@ ("limit" :> Prop("integer", {}))]
    [] m = "qualifications" /\ n = "upsert_qualification" ->   \* tools/qualifications.py:71-102
        [required |-> <<"entreprise_id", "statut">>,
         properties |-> ("entreprise_id" :> Prop("string", {})) @@ ("statut" :> Prop("string", {StrV("Nouveau"), StrV("Qualifie"), StrV("BC envoye"), StrV("Paye"), StrV("Termine"), StrV("Annule")})) @@ ("montant_estime" :> Prop("number", {})) @@ ("description" :> Prop("string", {})) @@ ("date_prevue" :> Prop("string", {}))]
    [] m = "factures" /\ n = "search_factures" ->   \* tools/factures.py:39-71
        [required |-> <<>>,
         properties |-> ("entreprise_id" :> Prop("string", {})) @@ ("payment_status" :> Prop("string", {StrV("paid"), StrV("unpaid"), StrV("pending")})) @@ ("start_date" :> Prop("string", {})) @@ ("end_date" :> Prop("string", {})) @@ ("limit" :> Prop("integer", {}))]
    [] m = "factures" /\ n = "get_facture_by_id" ->   \* tools/factures.py:73-87
        [required |-> <<"facture_id">>,
         properties |-> ("facture_id" :> Prop("string", {}))]
    [] m = "factures" /\ n = "create_facture" ->   \* tools/factures.py:89-119
        [required |-> <<"qualification_id", "montant">>,
         properties |-> ("qualification_id" :> Prop("string", {})) @@ ("montant" :> Prop("number", {})) @@ ("description" :> Prop("string", {})) @@ ("date_emission" :> Prop("string", {})) @@ ("date_echeance" :> Prop("string", {}))]
    [] m = "factures" /\ n = "update_facture" ->   \* tools/factures.py:121-147
        [required |-> <<"facture_id">>,
         properties |-> ("facture_id" :> Prop("string", {})) @@ ("montant" :> Prop("number", {})) @@ ("description" :> Prop("string", {})) @@ ("date_echeance" :> Prop("string", {}))]
    [] m = "factures" /\ n = "delete_facture" ->   \* tools/factures.py:149-163
        [required |-> <<"facture_id">>,
         properties |-> ("facture_id" :> Prop("string", {}))]
    [] m = "factures" /\ n = "generate_facture_pdf" ->   \* tools/factures.py:165-184
        [required |-> <<"facture_id">>,
         properties |-> ("facture_id" :> Prop("string", {})) @@ ("force_regenerate" :> Prop("boolean", {}))]
    [] m = "factures" /\ n = "create_and_send_facture" ->   \* tools/factures.py:186-220
        [required |-> <<"qualification_id", "montant">>,
         properties |-> ("qualification_id" :> Prop("string", {})) @@ ("montant" :> Prop("number", {})) @@ ("description" :> Prop("string", {})) @@ ("recipient_email" :> Prop("string", {})) @@ ("date_echeance" :> Prop("string", {})) @@ ("message" :> Prop("string", {}))]
    [] m = "paiements" /\ n = "get_unpaid_factures" ->   \* tools/paiements.py:25-40
        [required |-> <<>>,
         properties |-> ("limit" :> Prop("integer", {}))]
    [] m = "paiements" /\ n = "get_revenue_stats" ->   \* tools/paiements.py:42-60
        [required |-> <<"start_date", "end_date">>,
         properties |-> ("start_date" :> Prop("string", {})) @@ ("end_date" :> Prop("string", {}))]
    [] m = "paiements" /\ n = "mark_facture_paid" ->   \* tools/paiements.py:62-84
        [required |-> <<"facture_id">>,
         properties |-> ("facture_id" :> Prop("string", {})) @@ ("payment_date" :> Prop("string", {})) @@ ("payment_method" :> Prop("string", {}))]
    [] m = "communications" /\ n = "list_recent_interactions" ->   \* tools/communications.py:34-53
        [required |-> <<>>,
         properties |-> ("entreprise_id" :> Prop("string", {})) @@ ("limit" :> Prop("integer", {}))]
    [] m = "communications" /\ n = "send_facture_email" ->   \* tools/communications.py:55-77
        [required |-> <<"facture_id">>,
         properties |-> ("facture_id" :> Prop("string", {})) @@ ("recipient_email" :> Prop("string", {})) @@ ("message" :> Prop("string", {}))]
    [] m = "communications" /\ n = "generate_monthly_report" ->   \* tools/communications.py:79-106
        [required |-> <<"year", "month">>,
         properties |-> ("year" :> Prop("integer", {})) @@ ("month" :> Prop("integer", {})) @@ ("send_email" :> Prop("boolean", {})) @@ ("recipient_email" :> Prop("string", {}))]
    [] m = "workflows" /\ n = "generate_facture_pdf" ->   \* tools/workflows.py:44-63
        [required |-> <<"facture_id">>,
         properties |-> ("facture_id" :> Prop("string", {})) @@ ("force_regenerate" :> Prop("boolean", {}))]
    [] m = "workflows" /\ n = "create_and_send_facture" ->   \* tools/workflows.py:65-104
        [required |-> <<"qualification_id", "montant">>,
         properties |-> ("qualification_id" :> Prop("string", {})) @@ ("montant" :> Prop("number", {})) @@ ("mark_as_paid" :> Prop("boolean", {})) @@ ("description" :> Prop("string", {})) @@ ("recipient_email" :> Prop("string", {})) @@ ("date_echeance" :> Prop("string", {})) @@ ("message" :> Prop("string", {}))]
    [] m = "workflows" /\ n = "send_facture_email" ->   \* tools/workflows.py:106-128
        [required |-> <<"facture_id">>,
         properties |-> ("facture_id" :> Prop("string", {})) @@ ("recipient_email" :> Prop("string", {})) @@ ("message" :> Prop("string", {}))]
    [] m = "workflows" /\ n = "generate_monthly_report" ->   \* tools/workflows.py:130-157
        [required |-> <<"year", "month">>,
         properties |-> ("year" :> Prop("integer", {})) @@ ("month" :> Prop("integer", {})) @@ ("send_email" :> Prop("boolean", {})) @@ ("recipient_email" :> Prop("string", {}))]
    [] m = "workflows" /\ n = "send_plaquette_to_entreprise" ->   \* tools/workflows.py:159-199
        [required |-> <<"entreprise_id">>,
         properties |-> ("entreprise_id" :> Prop("string", {})) @@ ("recipient_email" :> Prop("string", {})) @@ ("prospecteur_nom" :> Prop("string", {})) @@ ("prospecteur_telephone" :> Prop("string", {})) @@ ("prospecteur_email" :> Prop("string", {})) @@ ("message" :> Prop("string", {}))]

RECURSIVE Flatten(_)
Flatten(seqs) == IF seqs = << >> THEN << >> ELSE Head(seqs) \o Flatten(Tail(seqs))

\* ------------------------------------------------------------------------
\* utils/validation.py
\* ------------------------------------------------------------------------
\* An error message, by what it reports: its kind, the field it names, the
\* expected type and the type name of the supplied value.
ErrMissing(field) == [kind |-> "missing", field |-> field, expected |-> "", got |-> ""]
ErrType(field, expected, value) == [kind |-> "type", field |-> field, expected |-> expected, got |-> value.t]
ErrEnum(field, value) == [kind |-> "enum", field |-> field, expected |-> "", got |-> value.t]

\* The chain with a number check that accepts floats only.
TypeErrors_number_is_float(field, expected_type, value) ==
    IF expected_type = "string" /\ ~IsInstance(value, "str")
    THEN <<ErrType(field, "string", value)>>
    ELSE IF expected_type = "number" /\ ~IsInstance(value, "float")
    THEN <<ErrType(field, "number", value)>>
    ELSE IF expected_type = "integer" /\ ~IsInstance(value, "int")
    THEN <<ErrType(field, "integer", value)>>
    ELSE IF expected_type = "boolean" /\ ~IsInstance(value, "bool")
    THEN <<ErrType(field, "boolean", value)>>
    ELSE IF expected_type = "object" /\ ~IsInstance(value, "dict")
    THEN <<ErrType(field, "object", value)>>
    ELSE IF expected_type = "array" /\ ~IsInstance(value, "list")
    THEN <<ErrType(field, "array", value)>>
    ELSE << >>

\* The if / elif chain of the type check on one provided field.
TypeErrors(field, expected_type, value) ==
    IF expected_type = "string" /\ ~IsInstance(value, "str")
    THEN <<ErrType(field, "string", value)>>
    ELSE IF expected_type = "number" /\ ~(IsInstance(value, "int") \/ IsInstance(value, "float"))
    THEN <<ErrType(field, "number", value)>>
    ELSE IF expected_type = "integer" /\ ~IsInstance(value, "int")
    THEN <<ErrType(field, "integer", value)>>
    ELSE IF expected_type = "boolean" /\ ~IsInstance(value, "bool")
    THEN <<ErrType(field, "boolean", value)>>
    ELSE IF expected_type = "object" /\ ~IsInstance(value, "dict")
    THEN <<ErrType(field, "object", value)>>
    ELSE IF expected_type = "array" /\ ~IsInstance(value, "list")
    THEN <<ErrType(field, "array", value)>>
    ELSE << >>

EnumErrors(field, enum_values, value) ==
    IF enum_values # {} /\ ~(\E e \in enum_values : PyEq(value, e))
    THEN <<ErrEnum(field, value)>>
    ELSE << >>

\* The loop body without the "value is None" skip.
FieldErrors_checks_null(properties, field, value) ==
    IF field \notin DOMAIN properties THEN << >>
    ELSE TypeErrors(field, properties[field].type, value)
         \o EnumErrors(field, properties[field].enum, value)

\* The body of "for field, value in params.items()".
FieldErrors(properties, field, value) ==
    IF field \notin DOMAIN properties THEN << >>
    ELSE IF value.t = "NoneType" THEN << >>
    ELSE TypeErrors(field, properties[field].type, value)
         \o EnumErrors(field, properties[field].enum, value)

\* The body of "for field in required".
\* The required-field test that takes a null value for a missing field.
RequiredErrors_rejects_null(params, field) ==
    IF ~Has(params, field) \/ Get(params, field) = NullV
    THEN <<ErrMissing(field)>> ELSE << >>

RequiredErrors(params, field) ==
    IF ~Has(params, field) THEN <<ErrMissing(field)>> ELSE << >>

\* validate_params with a required loop that starts at the second field.
validate_params_skips_first_required(params, input_schema) ==
    Flatten([i \in 1..(Len(input_schema.required) - 1) |->
                RequiredErrors(params, input_schema.required[i + 1])])
    \o Flatten([i \in 1..Len(params) |->
                FieldErrors(input_schema.properties, params[i].k, params[i].v)])

\* validate_params: the list of errors; the empty sequence stands for the
\* None the function returns when there is no error.
validate_params(params, input_schema) ==
    Flatten([i \in 1..Len(input_schema.required) |->
                RequiredErrors(params, input_schema.required[i])])
    \o Flatten([i \in 1..Len(params) |->
                FieldErrors(input_schema.properties, params[i].k, params[i].v)])

\* ------------------------------------------------------------------------
\* config.py, utils/retry.py, tools/base.py: constants
\* ------------------------------------------------------------------------
hitl_facture_threshold == 1500
hitl_timeout_minutes == 30
max_attempts == 3
base_delay == 1
max_delay == 10

\* The five downstream services and the setting that holds each base URL.
Services == {"supabase", "database", "document", "storage", "email"}

\* ------------------------------------------------------------------------
\* Exceptions
\* ------------------------------------------------------------------------
\* An exception object: its class, the HTTP status it carries (HTTPException
\* and HTTPStatusError), the kind of body of the downstream response
\* (HTTPStatusError) and its message.
\* The detail of an HTTPException: a string (form "str", the text in message)
\* or a dict (form "dict") with the keys the raising site sets; an absent key
\* is "" (errors: the empty list).  worker_detail is the decoded body of the
\* downstream response, or the dict that wraps its text.
Detail(form, error, message, tool, category, worker_detail, errors) ==
    [form |-> form, error |-> error, message |-> message, tool |-> tool,
     category |-> category, worker_detail |-> worker_detail, errors |-> errors]
StrDetail(message) == Detail("str", "", message, "", "", "", << >>)
NoDetail == Detail("", "", "", "", "", "", << >>)

Exc(cls, status, body, msg) ==
    [cls |-> cls, status |-> status, body |-> body, msg |-> msg,
     detail |-> IF cls = "HTTPException" THEN StrDetail(msg) ELSE NoDetail]
HTTPException(status_code, detail) ==
    [cls |-> "HTTPException", status |-> status_code, body |-> "", msg |-> "", detail |-> detail]
NoExc == Exc("", 0, "", "")

\* issubclass(cls, base) for the classes the except clauses name.
IsA(cls, base) ==
    CASE base = "Exception" -> TRUE
      [] base = "TimeoutException" -> cls \in {"ConnectTimeout", "ReadTimeout"}
      [] base = "NetworkError" -> cls \in {"ConnectError", "ReadError"}
      [] base = "ValueError" -> cls \in {"ValueError", "JSONDecodeError"}
      [] OTHER -> cls = base

\* ------------------------------------------------------------------------
\* Handlers as programs
\* ------------------------------------------------------------------------
\* What a handler does once a step has produced a value (or, for onerr, an
\* exception): go on, record a fact and go on, return, or raise.
GoOn == [t |-> "next", code |-> 0, x |-> ""]
SetFlag(f) == [t |-> "set", code |-> 0, x |-> f]
Return(res) == [t |-> "return", code |-> 0, x |-> res]
RaiseHTTP(code, msg) == [t |-> "http", code |-> code, x |-> msg]
RaiseExc(cls) == [t |-> "exc", code |-> 0, x |-> cls]
Propagate == [t |-> "raise", code |-> 0, x |-> ""]

\* One step of a handler.  helper names the outbound helper ("check" is a
\* test made by the handler itself, "telegram" the Bot API); rv is
\* require_validation; cond is the set of facts under which the step is
\* reached; react maps the shape of the decoded response to what the handler
\* does with it; onerr is what the enclosing try does with an exception of
\* the helper; wrap is the except clause that rewrites exceptions:
\* "none" re-raises, "http500" turns every exception but HTTPException into
\* HTTPException(500), "hitl500" turns every exception into HTTPException(500).
Step(helper, op, rv, cond, react, onerr, wrap) ==
    [helper |-> helper, op |-> op, rv |-> rv, cond |-> cond,
     react |-> react, onerr |-> onerr, wrap |-> wrap]
Rpc(op, cond, react) == Step("rpc", op, FALSE, cond, react, Propagate, "none")
Db(op, rv, cond, react) == Step("db", op, rv, cond, react, Propagate, "none")
Doc(op, cond, react) == Step("doc", op, FALSE, cond, react, Propagate, "none")
Storage(op, cond, react) == Step("storage", op, FALSE, cond, react, Propagate, "none")
Email(op, cond, react) == Step("email", op, FALSE, cond, react, Propagate, "none")
Check(cond, reaction) == Step("check", "", FALSE, cond, ("-" :> reaction), Propagate, "none")

\* The shapes of a mutation-service response: validated or not, with or
\* without the entity identifier.
DbShapes == {"validated_id", "validated_noid", "unvalidated_id", "unvalidated_noid"}
DbValidated(shape) == shape \in {"validated_id", "validated_noid"}
DbHasId(shape) == shape \in {"validated_id", "unvalidated_id"}
AnyShape(reaction) == ("any" :> reaction)

WithWrap(steps, w) == [i \in DOMAIN steps |-> [steps[i] EXCEPT !.wrap = w]]
\* A try block whose except clause re-raises.
WithOnErr_reraises(step, reaction) == step

\* The step inside a try block whose except clause does reaction.
WithOnErr(step, reaction) == [step EXCEPT !.onerr = reaction]

\* A READ handler: return await call_supabase_rpc(name, {...}).
read_handler(name) == <<Rpc(name, {}, AnyShape(Return("rpc_result")))>>

\* A WRITE handler that returns the mutation helper's data as it is.
write_handler(endpoint, rv) ==
    <<Db(endpoint, rv, {}, [sh \in DbShapes |-> Return("worker_data")])>>

upsert_entreprise_handler ==
    <<Db("POST /entreprise/upsert", FALSE, {},
         [sh \in DbShapes |-> IF DbHasId(sh) THEN Return("entity_validated")
                              ELSE RaiseHTTP(422, "Validation failed: response missing 'id'")])>>

\* The email sent before the PDF is uploaded.
communications_send_facture_email_handler_email_first ==
    << Rpc("get_facture_by_id", {},
           ("empty" :> RaiseHTTP(404, "Facture not found"))
           @@ ("list" :> RaiseExc("AttributeError"))
           @@ ("facture" :> GoOn)),
       Rpc("get_entreprise_by_id", {"!recipient_email"},
           ("email" :> GoOn)
           @@ ("no_email" :> RaiseHTTP(400, "No email address found for this company"))),
       Doc("/generate/facture", {},
           ("file_path" :> GoOn) @@ ("no_file_path" :> RaiseExc("KeyError"))),
       Email("/send", {}, AnyShape(GoOn)),
       Storage("/upload", {},
           ("public_url" :> GoOn) @@ ("no_public_url" :> RaiseExc("KeyError"))),
       Db("PUT /facture/{id} pdf_status=sent", FALSE, {}, [sh \in DbShapes |-> Return("sent")]) >>

\* tools/communications.py
communications_send_facture_email_handler ==
    << Rpc("get_facture_by_id", {},
           ("empty" :> RaiseHTTP(404, "Facture not found"))
           @@ ("list" :> RaiseExc("AttributeError"))
           @@ ("facture" :> GoOn)),
       Rpc("get_entreprise_by_id", {"!recipient_email"},
           ("email" :> GoOn)
           @@ ("no_email" :> RaiseHTTP(400, "No email address found for this company"))),
       Doc("/generate/facture", {},
           ("file_path" :> GoOn) @@ ("no_file_path" :> RaiseExc("KeyError"))),
       Storage("/upload", {},
           ("public_url" :> GoOn) @@ ("no_public_url" :> RaiseExc("KeyError"))),
       Email("/send", {}, AnyShape(GoOn)),
       Db("PUT /facture/{id} pdf_status=sent", FALSE, {}, [sh \in DbShapes |-> Return("sent")]) >>

communications_generate_monthly_report_handler ==
    << Rpc("get_revenue_stats", {}, AnyShape(GoOn)),
       Rpc("get_unpaid_factures", {}, AnyShape(GoOn)),
       Doc("/generate/report", {},
           ("file_path" :> GoOn) @@ ("no_file_path" :> RaiseExc("KeyError"))),
       Storage("/upload", {},
           ("public_url" :> GoOn) @@ ("no_public_url" :> RaiseExc("KeyError"))),
       Check({"send_email", "!recipient_email"},
             RaiseHTTP(400, "recipient_email required when send_email=true")),
       Email("/send", {"send_email"}, AnyShape(GoOn)),
       Check({}, Return("report")) >>

\* tools/factures.py
factures_generate_facture_pdf_handler ==
    WithWrap(
    << Rpc("get_facture_by_id", {},
           ("empty" :> RaiseHTTP(404, "Facture not found"))
           @@ ("generated" :> SetFlag("pdf_exists"))
           @@ ("no_qualification" :> SetFlag("no_qualification"))
           @@ ("facture" :> GoOn)),
       Check({"pdf_exists", "!force_regenerate"}, Return("pdf_already_exists")),
       Check({"no_qualification"}, RaiseHTTP(400, "Facture has no qualification_id")),
       Doc("/generate/facture", {},
           ("pdf_base64" :> GoOn)
           @@ ("no_pdf_base64" :> RaiseHTTP(500, "PDF generated but no pdf_base64 returned"))),
       Storage("/upload/base64", {},
           ("url" :> GoOn)
           @@ ("no_url" :> RaiseHTTP(500, "PDF uploaded but no URL returned"))),
       Db("PUT /facture/{id} pdf_status=generated", FALSE, {},
          [sh \in DbShapes |-> Return("generated")]) >>,
    "http500")

create_facture_step ==
    Db("POST /facture/create", TRUE, {},
       [sh \in DbShapes |-> IF DbHasId(sh) THEN GoOn
                            ELSE RaiseHTTP(500, "Failed to create invoice: no facture_id returned")])

factures_create_and_send_facture_handler ==
    <<create_facture_step>> \o communications_send_facture_email_handler

\* tools/workflows.py
workflows_generate_facture_pdf_handler ==
    WithWrap(
    << Rpc("get_facture_by_id", {},
           ("empty" :> RaiseHTTP(404, "Facture not found"))
           @@ ("generated" :> SetFlag("pdf_exists"))
           @@ ("generated_paid_no_acquittee" :> GoOn)
           @@ ("no_qualification" :> SetFlag("no_qualification"))
           @@ ("facture" :> GoOn)),
       Check({"pdf_exists", "!force_regenerate"}, Return("pdf_already_exists")),
       Check({"no_qualification"}, RaiseHTTP(400, "Facture has no qualification_id")),
       Doc("/generate/facture", {},
           ("pdf_base64" :> GoOn)
           @@ ("no_pdf_base64" :> RaiseHTTP(500, "PDF generated but no pdf_base64 returned"))),
       Storage("/upload/base64", {},
           ("url" :> GoOn)
           @@ ("no_url" :> RaiseHTTP(500, "PDF uploaded but no URL returned"))),
       Db("PUT /facture/{id} pdf_status=generated", FALSE, {},
          [sh \in DbShapes |-> Return("generated")]) >>,
    "http500")

workflows_send_facture_email_handler ==
    << Rpc("get_facture_by_id", {},
           ("empty" :> RaiseHTTP(404, "Facture not found"))
           @@ ("list" :> RaiseExc("AttributeError"))
           @@ ("facture" :> GoOn)),
       Rpc("get_entreprise_by_id", {"!recipient_email"},
           ("email" :> GoOn)
           @@ ("no_email" :> RaiseHTTP(400, "No email address found for this company"))),
       Doc("/generate/facture", {},
           ("file_path" :> GoOn) @@ ("no_file_path" :> RaiseExc("KeyError"))),
       Storage("/upload", {},
           ("public_url" :> GoOn) @@ ("no_public_url" :> RaiseExc("KeyError"))),
       Email("/send", {}, AnyShape(GoOn)),
       Db("PUT /facture/{id} pdf_status=sent", FALSE, {}, [sh \in DbShapes |-> Return("sent")]) >>

workflows_generate_monthly_report_handler ==
    << Rpc("get_revenue_stats", {}, AnyShape(GoOn)),
       Rpc("get_unpaid_factures", {}, AnyShape(GoOn)),
       Doc("/generate/report", {},
           ("file_path" :> GoOn) @@ ("no_file_path" :> RaiseExc("KeyError"))),
       Storage("/upload", {},
           ("public_url" :> GoOn) @@ ("no_public_url" :> RaiseExc("KeyError"))),
       Check({"send_email", "!recipient_email"},
             RaiseHTTP(400, "recipient_email required when send_email=true")),
       Email("/send", {"send_email"}, AnyShape(GoOn)),
       Check({}, Return("report")) >>

send_plaquette_to_entreprise_handler ==
    WithWrap(
    << Rpc("get_entreprise_by_id", {},
           ("empty" :> RaiseHTTP(404, "Entreprise not found"))
           @@ ("no_email" :> SetFlag("no_email"))
           @@ ("entreprise" :> GoOn)),
       Check({"no_email", "!recipient_email"}, RaiseHTTP(400, "Entreprise has no email")),
       WithOnErr(Rpc("get_qualifications_by_entreprise", {}, AnyShape(GoOn)), GoOn),
       Doc("/generate/plaquette", {},
           ("pdf_base64" :> GoOn)
           @@ ("no_pdf_base64" :> RaiseHTTP(500, "Plaquette PDF generated but no pdf_base64 returned"))),
       Storage("/upload/base64", {}, AnyShape(GoOn)),
       Email("/send/plaquette", {}, AnyShape(GoOn)),
       Check({}, Return("plaquette_sent")) >>,
    "http500")

\* A decision that records the request as soon as the amount is over the
\* threshold.
needs_hitl_validation_persists ==
    << Check({"hitl_enabled", "montant_null"}, RaiseExc("TypeError")),
       Check({"hitl_enabled", "over_threshold"}, SetFlag("hitl")),
       Rpc("execute_sql INSERT INTO hitl_requests", {"hitl"}, AnyShape(SetFlag("persisted"))),
       WithOnErr(Rpc("get_qualification_by_id", {"hitl_enabled", "!hitl", "qualification_id"},
                     ("empty" :> GoOn)
                     @@ ("no_entreprise" :> GoOn)
                     @@ ("qualification" :> SetFlag("entreprise"))),
                 SetFlag("hitl")),
       WithOnErr(Rpc("count_factures_by_entreprise", {"hitl_enabled", "!hitl", "entreprise"},
                     ("zero" :> SetFlag("hitl")) @@ ("some" :> GoOn)),
                 SetFlag("hitl")) >>

\* utils/hitl.py: the decision, as the steps it adds to the calling handler.
\* The fact "hitl" stands for the result True.
needs_hitl_validation ==
    << Check({"hitl_enabled", "montant_null"}, RaiseExc("TypeError")),
       Check({"hitl_enabled", "over_threshold"}, SetFlag("hitl")),
       WithOnErr(Rpc("get_qualification_by_id", {"hitl_enabled", "!hitl", "qualification_id"},
                     ("empty" :> GoOn)
                     @@ ("no_entreprise" :> GoOn)
                     @@ ("qualification" :> SetFlag("entreprise"))),
                 SetFlag("hitl")),
       WithOnErr(Rpc("count_factures_by_entreprise", {"hitl_enabled", "!hitl", "entreprise"},
                     ("zero" :> SetFlag("hitl")) @@ ("some" :> GoOn)),
                 SetFlag("hitl")) >>

\* The notification sent before the record is persisted.
perform_human_validation_notifies_first ==
    << Check({"hitl", "!telegram_configured"},
             RaiseHTTP(500, "HITL validation enabled but Telegram not configured")) >>
    \o WithWrap(
       << Step("telegram", "send_message", FALSE, {"hitl"}, AnyShape(SetFlag("notified")),
               Propagate, "none"),
          Rpc("execute_sql INSERT INTO hitl_requests", {"hitl"}, AnyShape(SetFlag("persisted"))),
          Rpc("execute_sql UPDATE hitl_requests SET telegram_message_id", {"hitl"}, AnyShape(GoOn)) >>,
       "hitl500")
    \o << Check({"hitl"}, Return("pending_validation")) >>

\* utils/hitl.py: persist the pending record, notify, return pending.
perform_human_validation ==
    << Check({"hitl", "!telegram_configured"},
             RaiseHTTP(500, "HITL validation enabled but Telegram not configured")) >>
    \o WithWrap(
       << Rpc("execute_sql INSERT INTO hitl_requests", {"hitl"}, AnyShape(SetFlag("persisted"))),
          Step("telegram", "send_message", FALSE, {"hitl"}, AnyShape(SetFlag("notified")),
               Propagate, "none"),
          Rpc("execute_sql UPDATE hitl_requests SET telegram_message_id", {"hitl"}, AnyShape(GoOn)) >>,
       "hitl500")
    \o << Check({"hitl"}, Return("pending_validation")) >>

workflows_create_and_send_facture_handler ==
    needs_hitl_validation
    \o perform_human_validation
    \o << create_facture_step,
          Db("PUT /facture/{id} payment_status=paid", FALSE, {"mark_as_paid"},
             [sh \in DbShapes |-> GoOn]) >>
    \o workflows_send_facture_email_handler

\* The function a module binds to a tool name with @register_tool.
HandlerOf(m, n) ==
    CASE n = "upsert_entreprise" -> upsert_entreprise_handler
      [] n = "upsert_qualification" -> write_handler("POST /qualification/upsert", TRUE)
      [] n = "create_facture" -> write_handler("POST /facture/create", TRUE)
      [] n = "update_facture" -> write_handler("PUT /facture/{id}", TRUE)
      [] n = "delete_facture" -> write_handler("DELETE /facture/{id}", FALSE)
      [] n = "mark_facture_paid" -> write_handler("PUT /facture/{id} payment_status=paid", TRUE)
      [] n = "generate_facture_pdf" /\ m = "factures" -> factures_generate_facture_pdf_handler
      [] n = "generate_facture_pdf" /\ m = "workflows" -> workflows_generate_facture_pdf_handler
      [] n = "create_and_send_facture" /\ m = "factures" -> factures_create_and_send_facture_handler
      [] n = "create_and_send_facture" /\ m = "workflows" -> workflows_create_and_send_facture_handler
      [] n = "send_facture_email" /\ m = "communications" -> communications_send_facture_email_handler
      [] n = "send_facture_email" /\ m = "workflows" -> workflows_send_facture_email_handler
      [] n = "generate_monthly_report" /\ m = "communications" -> communications_generate_monthly_report_handler
      [] n = "generate_monthly_report" /\ m = "workflows" -> workflows_generate_monthly_report_handler
      [] n = "send_plaquette_to_entreprise" -> send_plaquette_to_entreprise_handler
      [] OTHER -> read_handler(n)

\* ------------------------------------------------------------------------
\* tools/__init__.py and tools_registry.py: registration at import time
\* ------------------------------------------------------------------------
\* tools.workflows imported before the other domain modules.
ImportOrder_workflows_first == <<"workflows", "entreprises", "qualifications", "factures",
                                 "paiements", "communications">>

\* The order in which tools/__init__.py imports the domain modules.
ImportOrder == <<"entreprises", "qualifications", "factures", "paiements",
                 "communications", "workflows">>

\* The description_short argument of the @register_tool decorators that
\* register a name (the same text in every module that registers it).
description_short(name) ==
    CASE name = "search_entreprise_with_stats" -> "Recherche entreprise par nom avec statistiques"   \* tools/entreprises.py:137-141
      [] name = "get_entreprise_by_id" -> "Recupere details complets d'une entreprise"   \* tools/entreprises.py:150-154
      [] name = "list_entreprises" -> "Liste toutes les entreprises avec pagination"   \* tools/entreprises.py:162-166
      [] name = "get_stats_entreprises" -> "Statistiques globales sur les entreprises et revenus"   \* tools/entreprises.py:175-179
      [] name = "upsert_entreprise" -> "Cree ou met a jour une entreprise"   \* tools/entreprises.py:185-189
      [] name = "get_entreprise_qualifications" -> "Recupere qualifications d'une entreprise"   \* tools/qualifications.py:109-113
      [] name = "search_qualifications" -> "Recherche qualifications par criteres"   \* tools/qualifications.py:121-125
      [] name = "upsert_qualification" -> "Cree ou met a jour une qualification"   \* tools/qualifications.py:136-140
      [] name = "search_factures" -> "Recherche factures par criteres"   \* tools/factures.py:227-231
      [] name = "get_facture_by_id" -> "Recupere details complets d'une facture"   \* tools/factures.py:243-247
      [] name = "create_facture" -> "Cree une nouvelle facture"   \* tools/factures.py:259-263
      [] name = "update_facture" -> "Met a jour une facture"   \* tools/factures.py:280-284
      [] name = "delete_facture" -> "Supprime une facture (soft delete)"   \* tools/factures.py:301-305
      [] name = "generate_facture_pdf" -> "Genere PDF facture et upload (sans email)"   \* tools/factures.py:322-326, tools/workflows.py:206-210
      [] name = "create_and_send_facture" -> "Cree facture puis genere et envoie PDF"   \* tools/factures.py:476-480, tools/workflows.py:376-380
      [] name = "get_unpaid_factures" -> "Recupere factures impayees"   \* tools/paiements.py:91-95
      [] name = "get_revenue_stats" -> "Calcule statistiques revenus pour periode"   \* tools/paiements.py:103-107
      [] name = "mark_facture_paid" -> "Marque une facture comme payee"   \* tools/paiements.py:116-120
      [] name = "list_recent_interactions" -> "Liste interactions recentes"   \* tools/communications.py:113-117
      [] name = "send_facture_email" -> "Genere PDF facture, upload et envoie email"   \* tools/communications.py:130-134, tools/workflows.py:476-480
      [] name = "generate_monthly_report" -> "Genere rapport mensuel PDF avec stats"   \* tools/communications.py:254-258, tools/workflows.py:603-607
      [] name = "send_plaquette_to_entreprise" -> "Genere et envoie la plaquette 2027 a une entreprise"   \* tools/workflows.py:715-719

\* One @register_tool(name, category, description_short) applied to a handler
\* of module m.
Reg(name, category, m) ==
    [name |-> name, category |-> category, description_short |-> description_short(name),
     handler |-> m]

\* The decorators a module runs when it is imported, in source order.
Registrations(m) ==
    CASE m = "entreprises" ->
          << Reg("search_entreprise_with_stats", "read", "entreprises"),
             Reg("get_entreprise_by_id", "read", "entreprises"),
             Reg("list_entreprises", "read", "entreprises"),
             Reg("get_stats_entreprises", "read", "entreprises"),
             Reg("upsert_entreprise", "write", "entreprises") >>
      [] m = "qualifications" ->
          << Reg("get_entreprise_qualifications", "read", "qualifications"),
             Reg("search_qualifications", "read", "qualifications"),
             Reg("upsert_qualification", "write", "qualifications") >>
      [] m = "factures" ->
          << Reg("search_factures", "read", "factures"),
             Reg("get_facture_by_id", "read", "factures"),
             Reg("create_facture", "write", "factures"),
             Reg("update_facture", "write", "factures"),
             Reg("delete_facture", "write", "factures"),
             Reg("generate_facture_pdf", "workflow", "factures"),
             Reg("create_and_send_facture", "workflow", "factures") >>
      [] m = "paiements" ->
          << Reg("get_unpaid_factures", "read", "paiements"),
             Reg("get_revenue_stats", "read", "paiements"),
             Reg("mark_facture_paid", "write", "paiements") >>
      [] m = "communications" ->
          << Reg("list_recent_interactions", "read", "communications"),
             Reg("send_facture_email", "workflow", "communications"),
             Reg("generate_monthly_report", "workflow", "communications") >>
      [] m = "workflows" ->
          << Reg("generate_facture_pdf", "workflow", "workflows"),
             Reg("create_and_send_facture", "workflow", "workflows"),
             Reg("send_facture_email", "workflow", "workflows"),
             Reg("generate_monthly_report", "workflow", "workflows"),
             Reg("send_plaquette_to_entreprise", "workflow", "workflows") >>

\* A WORKFLOW_SCHEMAS without the plaquette tool.
SchemaNames_without_plaquette(m) ==
    CASE m = "entreprises" ->
            {"search_entreprise_with_stats",
             "get_entreprise_by_id",
             "list_entreprises",
             "get_stats_entreprises",
             "upsert_entreprise"}
      [] m = "qualifications" ->
            {"get_entreprise_qualifications",
             "search_qualifications",
             "upsert_qualification"}
      [] m = "factures" ->
            {"search_factures",
             "get_facture_by_id",
             "create_facture",
             "update_facture",
             "delete_facture",
             "generate_facture_pdf",
             "create_and_send_facture"}
      [] m = "paiements" ->
            {"get_unpaid_factures",
             "get_revenue_stats",
             "mark_facture_paid"}
      [] m = "communications" ->
            {"list_recent_interactions",
             "send_facture_email",
             "generate_monthly_report"}
      [] m = "workflows" ->
            {"generate_facture_pdf",
             "create_and_send_facture",
             "send_facture_email",
             "generate_monthly_report"}

\* The keys of the module's *_SCHEMAS dict: entreprises.py 218-224,
\* qualifications.py 161-165, factures.py 539-547, paiements.py 141-145,
\* communications.py 370-374, workflows.py 875-881.
SchemaNames(m) ==
    CASE m = "entreprises" ->
            {"search_entreprise_with_stats",
             "get_entreprise_by_id",
             "list_entreprises",
             "get_stats_entreprises",
             "upsert_entreprise"}
      [] m = "qualifications" ->
            {"get_entreprise_qualifications",
             "search_qualifications",
             "upsert_qualification"}
      [] m = "factures" ->
            {"search_factures",
             "get_facture_by_id",
             "create_facture",
             "update_facture",
             "delete_facture",
             "generate_facture_pdf",
             "create_and_send_facture"}
      [] m = "paiements" ->
            {"get_unpaid_factures",
             "get_revenue_stats",
             "mark_facture_paid"}
      [] m = "communications" ->
            {"list_recent_interactions",
             "send_facture_email",
             "generate_monthly_report"}
      [] m = "workflows" ->
            {"generate_facture_pdf",
             "create_and_send_facture",
             "send_facture_email",
             "generate_monthly_report",
             "send_plaquette_to_entreprise"}

\* The module's *_SCHEMAS dict.
ModuleSchemas(m) ==
    [n \in SchemaNames(m) |-> [module |-> m, input_schema |-> ToolSchema(m, n)]]

\* A decorator that binds the name again.
register_tool_last_wins(registry, r) ==
    [n \in DOMAIN registry \cup {r.name} |->
        IF n = r.name
        THEN [name |-> r.name, category |-> r.category,
              description_short |-> r.description_short, handler |-> r.handler]
        ELSE registry[n]]

\* register_tool's decorator: the first registration of a name wins.
register_tool(registry, r) ==
    IF r.name \in DOMAIN registry
    THEN registry
    ELSE registry @@ (r.name :> [name |-> r.name, category |-> r.category,
                                 description_short |-> r.description_short,
                                 handler |-> r.handler])

RECURSIVE RegisterAll(_, _)
RegisterAll(registry, regs) ==
    IF regs = << >> THEN registry
    ELSE RegisterAll(register_tool(registry, Head(regs)), Tail(regs))

\* get_tool_info: the metadata of a tool, or None.
get_tool_info(registry, tool_name) ==
    IF tool_name \notin DOMAIN registry
    THEN [found |-> FALSE, name |-> "", category |-> "", description |-> ""]
    ELSE [found |-> TRUE, name |-> registry[tool_name].name,
          category |-> registry[tool_name].category,
          description |-> registry[tool_name].description_short]

\* {**A, **B}: the entries of B replace those of A.
DictMerge(A, B) == B @@ A

RECURSIVE MergeSchemas(_)
MergeSchemas(mods) ==
    IF mods = << >> THEN << >>
    ELSE DictMerge(MergeSchemas(SubSeq(mods, 1, Len(mods) - 1)), ModuleSchemas(mods[Len(mods)]))

\* ------------------------------------------------------------------------
\* State
\* ------------------------------------------------------------------------
VARIABLES
    settings,          \* config.settings: hitl_enabled, telegram_configured, unset (services whose base URL is unset)
    TOOL_REGISTRY,     \* tools_registry.TOOL_REGISTRY: name -> ToolMetadata
    ALL_TOOL_SCHEMAS,  \* tools.ALL_TOOL_SCHEMAS: name -> ToolSchema
    imported,          \* number of domain modules imported so far
    phase,             \* "import", "idle", "running" (a handler awaits an outbound call), "done"
    request,           \* the body of the tool call being served
    dispatched,        \* dispatch_tool has invoked a handler for the request
    ip,                \* the step of the handler that is awaiting its outbound call
    flags,             \* facts the handler has established so far
    attempt,           \* the attempt number of the retry wrapper for the current outbound call
    delays,            \* the delays slept by the retry wrapper for the current outbound call
    helper_exception,  \* the exception an outbound helper raised to the handler and that ended the handler
    read_timeouts,     \* how many attempts of the current outbound call ended in a read timeout
    calls,             \* the outbound requests issued while serving the request, in order
    response,          \* the HTTP response of the tool call
    hitl_requests,     \* the hitl_requests table
    vparams, vschema, verrors,  \* validate_params applied on its own: arguments and result
    retry_config,      \* the retry wrapper applied on its own: the arguments of the decorator
    retry_script,      \* ... and what the wrapped function does at its 1st, 2nd, ... call
    registered,        \* the registry on its own: the register_tool calls made, in order
    tool_info,         \* ... and the last get_tool_info call: its argument and its result
    payload,           \* a WRITE handler on its own: the payload it hands to call_database_worker
    worker_data,       \* ... the decoded body the mutation service answered with, or None
    handler_result,    \* ... and what the handler returned or raised
    query_answers,     \* needs_hitl_validation on its own: what the query service answers, by function
    decisions,         \* ... and the decisions of the evaluations made so far
    telegram_webhook_url,  \* config.settings: telegram_webhook_url is set
    scheduler,         \* the APScheduler job "hitl_timeout_cleanup": "none" or "running"
    now,               \* the clock, in minutes
    responders,        \* the process_validation_response calls in flight, by webhook request
    answered,          \* the process_validation_response call that ended last
    resumed,           \* the dispatches made by _resume_workflow, in order
    notified,          \* the requests whose Telegram message, with its buttons, was delivered
    gather,            \* the tasks of the asyncio.gather of generate_monthly_report, and their completion order
    http_client        \* utils.http_client: _shared_client, the AsyncClient instances made, and the calls that ended

vars == <<settings, TOOL_REGISTRY, ALL_TOOL_SCHEMAS, imported, phase, request, dispatched,
          ip, flags, attempt, delays, helper_exception, read_timeouts, calls, response,
          hitl_requests, vparams, vschema, verrors, retry_config, retry_script,
          registered, tool_info, payload, worker_data, handler_result, query_answers, decisions,
          telegram_webhook_url, scheduler, now, responders, answered, resumed, notified, gather, http_client>>

\* The variables of the functions applied on their own, and of the approval gate.
write_vars == <<payload, worker_data, handler_result>>
needs_vars == <<query_answers, decisions, gather, http_client>>
unit_vars == <<vparams, vschema, verrors, retry_config, retry_script, registered, tool_info,
               write_vars, needs_vars>>
hitl_vars == <<telegram_webhook_url, scheduler, now, responders, answered, resumed, notified>>

\* ------------------------------------------------------------------------
\* Handler execution
\* ------------------------------------------------------------------------
\* A fact a step is conditioned on: a setting, a test on params, or a fact
\* recorded by an earlier step.
CondHolds(atom, params, fl) ==
    CASE atom = "hitl_enabled" -> settings.hitl_enabled
      [] atom = "telegram_configured" -> settings.telegram_configured
      [] atom = "!telegram_configured" -> ~settings.telegram_configured
      [] atom = "montant_null" -> Has(params, "montant") /\ Get(params, "montant").t = "NoneType"
      [] atom = "over_threshold" ->
            /\ Has(params, "montant")
            /\ Get(params, "montant").t \in {"int", "float", "bool"}
            /\ NumOf(Get(params, "montant")) > hitl_facture_threshold
      [] atom \in {"qualification_id", "recipient_email", "mark_as_paid", "send_email",
                   "force_regenerate"} -> Truthy(Get(params, atom))
      [] atom = "!recipient_email" -> ~Truthy(Get(params, "recipient_email"))
      [] atom = "!force_regenerate" -> ~Truthy(Get(params, "force_regenerate"))
      [] atom = "!hitl" -> "hitl" \notin fl
      [] OTHER -> atom \in fl

\* Where a handler stands: awaiting the outbound call of step ip, returned
\* res, or raised exc.
Awaiting(at, fl) == [kind |-> "call", ip |-> at, flags |-> fl, res |-> "", exc |-> NoExc]
Returned(at, fl, res) == [kind |-> "return", ip |-> at, flags |-> fl, res |-> res, exc |-> NoExc]
Raised(at, fl, e) == [kind |-> "raise", ip |-> at, flags |-> fl, res |-> "", exc |-> e]

\* The except clauses around a step.
Rewrap(e, wrap) ==
    CASE wrap = "http500" ->
            IF e.cls = "HTTPException" THEN e
            ELSE Exc("HTTPException", 500, "", "Failed")
      [] wrap = "hitl500" ->
            IF e.cls = "TelegramError"
            THEN Exc("HTTPException", 500, "", "Failed to send Telegram notification")
            ELSE Exc("HTTPException", 500, "", "Failed to create HITL request")
      [] OTHER -> e

RECURSIVE Run(_, _, _, _)
\* What the handler does with the outcome of step at.
Apply(reaction, steps, at, fl, params) ==
    CASE reaction.t = "next" -> Run(steps, at + 1, fl, params)
      [] reaction.t = "set" -> Run(steps, at + 1, fl \cup {reaction.x}, params)
      [] reaction.t = "return" -> Returned(at, fl, reaction.x)
      [] reaction.t = "http" ->
            Raised(at, fl, Rewrap(Exc("HTTPException", reaction.code, "", reaction.x), steps[at].wrap))
      [] reaction.t = "exc" ->
            Raised(at, fl, Rewrap(Exc(reaction.x, 0, "", reaction.x), steps[at].wrap))

\* Run the handler from step at up to its next outbound call, its return or
\* the exception it raises.
Run(steps, at, fl, params) ==
    IF at > Len(steps) THEN Returned(at, fl, "None")
    ELSE IF ~(\A a \in steps[at].cond : CondHolds(a, params, fl))
         THEN Run(steps, at + 1, fl, params)
    ELSE IF steps[at].helper = "check"
         THEN Apply(steps[at].react["-"], steps, at, fl, params)
    ELSE Awaiting(at, fl)

\* Every except clause around a step logs and goes on.
OnError_goes_on(e, steps, at, fl, params) == Run(steps, at + 1, fl, params)

\* The helper of step at raised e.
OnError(e, steps, at, fl, params) ==
    IF steps[at].onerr.t = "raise"
    THEN Raised(at, fl, Rewrap(e, steps[at].wrap))
    ELSE Apply(steps[at].onerr, steps, at, fl, params)

\* ------------------------------------------------------------------------
\* utils/retry.py
\* ------------------------------------------------------------------------
Min(a, b) == IF a < b THEN a ELSE b

\* The arguments of the decorator.
RetryConfig(attempts, base, cap) ==
    [max_attempts |-> attempts, base_delay |-> base, max_delay |-> cap]

\* tools/base.py: @retry_with_backoff(max_attempts=3, base_delay=1.0) on every helper.
BaseRetry == RetryConfig(max_attempts, base_delay, max_delay)

Delay_doubles_from_first(cfg, n) == Min(cfg.base_delay * (2 ^ n), cfg.max_delay)

\* delay = min(base_delay * (2 ** (attempt - 1)), max_delay)
Delay(cfg, n) == Min(cfg.base_delay * (2 ^ (n - 1)), cfg.max_delay)

retry_network_error_without_limit(cfg, n) == n <= cfg.max_attempts

\* except (httpx.TimeoutException, httpx.NetworkError): if attempt < max_attempts
retry_network_error(cfg, n) == n < cfg.max_attempts

retry_http_error_on_any_status(cfg, e, n) == n < cfg.max_attempts

\* except httpx.HTTPStatusError: retry only on 5xx errors
retry_http_error(cfg, e, n) == (500 <= e.status /\ e.status < 600) /\ n < cfg.max_attempts

retry_with_backoff_raises_5xx(cfg, e, n) ==
    (IsA(e.cls, "TimeoutException") \/ IsA(e.cls, "NetworkError")) /\ retry_network_error(cfg, n)

\* The except clauses of the wrapper: does the exception of attempt n lead to
\* a sleep and another attempt (TRUE) or is it raised to the caller (FALSE)?
retry_with_backoff(cfg, e, n) ==
    IF IsA(e.cls, "TimeoutException") \/ IsA(e.cls, "NetworkError")
    THEN retry_network_error(cfg, n)
    ELSE IF e.cls = "HTTPStatusError"
         THEN retry_http_error(cfg, e, n)
    ELSE FALSE

\* ------------------------------------------------------------------------
\* tools/base.py: the outbound helpers
\* ------------------------------------------------------------------------
\* The service a helper talks to.
ServiceOf(helper) ==
    CASE helper = "rpc" -> "supabase"
      [] helper = "db" -> "database"
      [] helper = "doc" -> "document"
      [] helper = "storage" -> "storage"
      [] helper = "email" -> "email"
      [] OTHER -> "telegram"

\* The message of the RuntimeError a worker helper raises when its URL is unset.
NotConfigured(service) ==
    CASE service = "database" -> "DATABASE_WORKER_URL not configured"
      [] service = "document" -> "DOCUMENT_WORKER_URL not configured"
      [] service = "storage" -> "STORAGE_WORKER_URL not configured"
      [] service = "email" -> "EMAIL_WORKER_URL not configured"

\* The bodies an error response of a downstream can carry.
Bodies == {"json_object", "json_other", "text"}
ErrorStatuses == {400, 500}

\* What the transport can do to a request that is sent: the connection
\* fails or times out, the read fails or times out, or the downstream
\* answers with an error status (raise_for_status).
TransportFailures ==
    {Exc(c, 0, "", "") : c \in {"ConnectError", "ConnectTimeout", "ReadTimeout", "ReadError"}}
    \cup {Exc("HTTPStatusError", st, b, "") : st \in ErrorStatuses, b \in Bodies}

Ok(shape) == [kind |-> "ok", shape |-> shape, exc |-> NoExc, sent |-> TRUE]
Fail(e, sent) == [kind |-> "fail", shape |-> "", exc |-> e, sent |-> sent]

\* The outcomes of one attempt of the helper of step s, before the step's
\* own handling: a decoded response of one of the shapes the handler
\* distinguishes, or an exception.
AttemptResults(s) ==
    IF s.helper = "telegram"
    THEN {Ok(sh) : sh \in DOMAIN s.react} \cup {Fail(Exc("TelegramError", 0, "", ""), TRUE)}
    ELSE IF ServiceOf(s.helper) \in settings.unset
    THEN IF s.helper = "rpc"
         THEN {Fail(Exc("UnsupportedProtocol", 0, "", ""), FALSE)}
         ELSE {Fail(Exc("RuntimeError", 0, "", NotConfigured(ServiceOf(s.helper))), FALSE)}
    ELSE {Ok(sh) : sh \in DOMAIN s.react} \cup {Fail(e, TRUE) : e \in TransportFailures}

\* A call_database_worker that never looks at validated.
HelperResult_without_validation(s, r) == r

\* The end of call_database_worker: require_validation and not validated.
HelperResult(s, r) ==
    IF r.kind = "ok" /\ s.helper = "db" /\ s.rv /\ ~DbValidated(r.shape)
    THEN Fail(Exc("HTTPException", 422, "", "Validation failed"), TRUE)
    ELSE r

\* ------------------------------------------------------------------------
\* tools_registry.py: dispatch_tool
\* ------------------------------------------------------------------------
MsgDatabase == "Le service d'ecriture en base de donnees est temporairement indisponible. Seules les operations de lecture sont disponibles."
MsgDocument == "Le service de generation de documents PDF est temporairement indisponible. Les operations de lecture et d'ecriture en base restent disponibles."
MsgStorage == "Le service de stockage de fichiers est temporairement indisponible. Les operations de lecture et d'ecriture en base restent disponibles."
MsgEmail == "Le service d'envoi d'emails est temporairement indisponible. Les operations de lecture et d'ecriture en base restent disponibles."
MsgUnreachable == "Un service externe requis pour cette operation est temporairement inaccessible. Veuillez reessayer dans quelques instants."
MsgTimeout == "L'operation a pris trop de temps a s'executer. Le service est peut-etre surcharge. Veuillez reessayer."
MsgWorker == "Le service a retourne une erreur"

ServiceUnavailable(message, tool_name, category) ==
    HTTPException(503, Detail("dict", "service_unavailable", message, tool_name, category, "", << >>))

\* except RuntimeError: the configuration errors of the four workers.
MapRuntimeError(e, tool_name, category) ==
    CASE e.msg = NotConfigured("database") -> ServiceUnavailable(MsgDatabase, tool_name, category)
      [] e.msg = NotConfigured("document") -> ServiceUnavailable(MsgDocument, tool_name, category)
      [] e.msg = NotConfigured("storage") -> ServiceUnavailable(MsgStorage, tool_name, category)
      [] e.msg = NotConfigured("email") -> ServiceUnavailable(MsgEmail, tool_name, category)
      [] OTHER -> e

\* except httpx.HTTPStatusError: e.response.json(), or the text wrapped in a
\* dict; error_detail.get fails on a JSON value that is not an object.
MapHTTPStatusError(e, tool_name, category) ==
    LET error_detail == IF e.body \in {"json_object", "json_other"} THEN e.body ELSE "message:text"
    IN  IF e.body = "json_other"
        THEN Exc("AttributeError", 0, "", "object has no attribute 'get'")
        ELSE HTTPException(e.status,
                 Detail("dict", "worker_error", MsgWorker, tool_name, category, error_detail, << >>))

MapException_without_connect_clause(e, tool_name, category) ==
    IF e.cls = "HTTPException" THEN e
    ELSE IF e.cls = "RuntimeError" THEN MapRuntimeError(e, tool_name, category)
    ELSE IF IsA(e.cls, "TimeoutException")
         THEN HTTPException(504, Detail("dict", "gateway_timeout", MsgTimeout, tool_name, category, "", << >>))
    ELSE IF e.cls = "HTTPStatusError" THEN MapHTTPStatusError(e, tool_name, category)
    ELSE e

\* The except clauses of dispatch_tool, in order.
MapException(e, tool_name, category) ==
    IF e.cls = "HTTPException" THEN e
    ELSE IF e.cls = "RuntimeError" THEN MapRuntimeError(e, tool_name, category)
    ELSE IF e.cls \in {"ConnectError", "ConnectTimeout"}
         THEN ServiceUnavailable(MsgUnreachable, tool_name, category)
    ELSE IF IsA(e.cls, "TimeoutException")
         THEN HTTPException(504, Detail("dict", "gateway_timeout", MsgTimeout, tool_name, category, "", << >>))
    ELSE IF e.cls = "HTTPStatusError" THEN MapHTTPStatusError(e, tool_name, category)
    ELSE e

\* dispatch_tool once the handler of a registered tool has returned or raised.
dispatch_tool(registry, tool_name, o) ==
    IF o.kind = "raise"
    THEN [o EXCEPT !.exc = MapException(o.exc, tool_name, registry[tool_name].category)]
    ELSE o

\* ------------------------------------------------------------------------
\* main.py: mcp_call_tool
\* ------------------------------------------------------------------------
Response(status, detail, result) == [status |-> status, detail |-> detail, result |-> result]
NoResponse == Response(0, NoDetail, "")

MissingToolName == Response(400, StrDetail("Missing 'tool_name' in request body"), "")
\* The 422 with its detail reduced to the message.
ValidationFailed_message_only(tool_name, validation_errors) ==
    Response(422, StrDetail("Parameter validation failed"), "")

ValidationFailed(tool_name, validation_errors) ==
    Response(422, Detail("dict", "", "Parameter validation failed", tool_name, "", "",
                         validation_errors), "")

\* The try block around dispatch_tool: the result, or the except clauses.
Respond(o) ==
    IF o.kind = "return" THEN Response(200, NoDetail, o.res)
    ELSE IF IsA(o.exc.cls, "ValueError") THEN Response(404, StrDetail(o.exc.msg), "")
    ELSE IF o.exc.cls = "HTTPException" THEN Response(o.exc.status, o.exc.detail, "")
    ELSE Response(500, StrDetail("Tool execution failed"), "")

\* A lookup miss that returns None instead of raising.
UnknownTool_returns_none == Returned(0, {}, "None")

\* tool = TOOL_REGISTRY.get(tool_name); if not tool: raise ValueError
UnknownTool == Raised(0, {}, Exc("ValueError", 0, "", "Unknown tool"))

\* ------------------------------------------------------------------------
\* Bounds and inputs
\* ------------------------------------------------------------------------
\* At most this many of the five base URLs are unset at a time.
MaxUnset == 1

Settings ==
    [hitl_enabled : BOOLEAN, telegram_configured : BOOLEAN,
     unset : {S \in SUBSET Services : Cardinality(S) <= MaxUnset}]

Arg(k, v) == [k |-> k, v |-> v]

\* Arguments that satisfy every schema but the two invoice-creation ones.
CommonArguments ==
    << Arg("facture_id", StrV("f1")), Arg("entreprise_id", StrV("e1")),
       Arg("nom", StrV("Acme")), Arg("search_term", StrV("Acme")),
       Arg("start_date", StrV("2026-01-01")), Arg("end_date", StrV("2026-01-31")),
       Arg("year", IntV(2026)), Arg("month", IntV(1)) >>

\* The params a caller sends.
Arguments ==
    { << >>,
      << Arg("qualification_id", StrV("q1")), Arg("montant", IntV(2000)) >>,
      << Arg("qualification_id", StrV("q1")), Arg("montant", IntV(1000)),
         Arg("recipient_email", StrV("a@b.fr")), Arg("mark_as_paid", BoolV(TRUE)) >>,
      << Arg("qualification_id", StrV("q1")), Arg("montant", StrV("2000")) >>,
      << Arg("qualification_id", NullV), Arg("montant", IntV(1000)) >>,
      CommonArguments \o << Arg("statut", StrV("Nouveau")) >>,
      CommonArguments \o << Arg("statut", StrV("Inconnu")) >>,
      CommonArguments \o << Arg("recipient_email", StrV("a@b.fr")), Arg("send_email", BoolV(TRUE)),
                            Arg("force_regenerate", BoolV(TRUE)) >>,
      CommonArguments \o << Arg("send_email", BoolV(TRUE)), Arg("limit", StrV("10")) >> }

RegisteredNames ==
    UNION {{Registrations(ImportOrder[i])[j].name : j \in 1..Len(Registrations(ImportOrder[i]))} :
           i \in 1..Len(ImportOrder)}

\* The tool names a caller sends: the registered ones, one that is not, none.
ToolNames == RegisteredNames \cup {"drop_database", ""}

NoRequest == [tool_name |-> "", params |-> << >>]

\* The handler bound to the tool the request names.
Handler == HandlerOf(TOOL_REGISTRY[request.tool_name].handler, request.tool_name)

\* Optional[Dict]: None, or a dict.
None == [some |-> FALSE, v |-> << >>]
Some(d) == [some |-> TRUE, v |-> d]

\* The webhook requests the server can be handling at once.
Responders == {"w1", "w2"}

\* No process_validation_response call is in flight for a webhook request.
IdleResponder ==
    [pc |-> "idle", request_id |-> 0, action |-> "", modified_params |-> None, seen |-> ""]

\* No process_validation_response call has ended.
NoAnswer ==
    [request_id |-> 0, action |-> "", modified_params |-> None, seen |-> "", status_code |-> 0,
     resumed |-> FALSE]

\* No get_tool_info call has been made.
NoToolInfo == [tool_name |-> "", info |-> get_tool_info(<< >>, "")]

\* The steps of generate_monthly_report_handler that one asyncio.gather awaits.
GatheredSteps == {1, 2}

\* The task asyncio.gather makes of one awaitable: not created ("none"),
\* "running" its attempt-th try, "returned" or "raised".
Task(state, tries) == [state |-> state, attempt |-> tries]

\* No asyncio.gather was awaited.
NoGather == [tasks |-> [i \in GatheredSteps |-> Task("none", 0)], completed |-> << >>]

\* utils.http_client at import: _shared_client is None (0), no AsyncClient
\* was made, no close is awaiting aclose(), and no call has ended.
NoClient == [shared_client |-> 0, open |-> {}, created |-> 0, closing |-> 0, history |-> << >>]

\* No WRITE handler has ended.
NoResult == [kind |-> "", value |-> << >>, exc |-> NoExc]

\* No WRITE handler and no needs_hitl_validation is applied on its own.
WriteUnused ==
    /\ query_answers = << >>
    /\ decisions = << >>
    /\ gather = NoGather
    /\ http_client = NoClient
    /\ payload = << >>
    /\ worker_data = None
    /\ handler_result = NoResult

\* The retry wrapper, the registry and the WRITE handlers are not applied on
\* their own.
RetryUnused ==
    /\ WriteUnused
    /\ retry_config = BaseRetry
    /\ retry_script = << >>
    /\ registered = << >>
    /\ tool_info = NoToolInfo

\* The approval gate before the server has started.
HitlUnused ==
    /\ scheduler = "none"
    /\ now = 0
    /\ responders = [w \in Responders |-> IdleResponder]
    /\ answered = NoAnswer
    /\ resumed = << >>
    /\ notified = {}

\* ------------------------------------------------------------------------
\* The server
\* ------------------------------------------------------------------------
Init ==
    /\ settings \in Settings
    /\ TOOL_REGISTRY = << >>
    /\ ALL_TOOL_SCHEMAS = << >>
    /\ imported = 0
    /\ phase = "import"
    /\ request = NoRequest
    /\ dispatched = FALSE
    /\ ip = 0
    /\ flags = {}
    /\ attempt = 0
    /\ delays = << >>
    /\ helper_exception = NoExc
    /\ read_timeouts = 0
    /\ calls = << >>
    /\ response = NoResponse
    /\ hitl_requests = << >>
    /\ vparams = << >>
    /\ vschema = [required |-> << >>, properties |-> << >>]
    /\ verrors = << >>
    /\ RetryUnused
    /\ telegram_webhook_url = TRUE
    /\ HitlUnused

\* tools/__init__.py: import the next domain module; its decorators run.
ImportModule ==
    /\ phase = "import"
    /\ imported < Len(ImportOrder)
    /\ TOOL_REGISTRY' = RegisterAll(TOOL_REGISTRY, Registrations(ImportOrder[imported + 1]))
    /\ imported' = imported + 1
    /\ UNCHANGED <<settings, ALL_TOOL_SCHEMAS, phase, request, dispatched, ip, flags, attempt,
                   delays, helper_exception, read_timeouts, calls, response, hitl_requests,
                   unit_vars, hitl_vars>>

\* tools/__init__.py: ALL_TOOL_SCHEMAS = {**ENTREPRISE_SCHEMAS, ..., **WORKFLOW_SCHEMAS}
BuildAllToolSchemas ==
    /\ phase = "import"
    /\ imported = Len(ImportOrder)
    /\ ALL_TOOL_SCHEMAS' = MergeSchemas(ImportOrder)
    /\ phase' = "idle"
    /\ UNCHANGED <<settings, TOOL_REGISTRY, imported, request, dispatched, ip, flags, attempt,
                   delays, helper_exception, read_timeouts, calls, response, hitl_requests,
                   unit_vars, hitl_vars>>

\* The handler stands at o: it awaits an outbound call, or the tool call ends
\* and dispatch_tool and mcp_call_tool turn o into the response.
Continue(tool_name, o, e, timeouts) ==
    /\ ip' = o.ip
    /\ flags' = o.flags
    /\ IF o.kind = "call"
       THEN /\ phase' = "running"
            /\ attempt' = 1
            /\ delays' = << >>
            /\ helper_exception' = e
            /\ read_timeouts' = 0
            /\ response' = NoResponse
       ELSE /\ phase' = "done"
            /\ helper_exception' = IF o.kind = "raise" THEN e ELSE NoExc
            /\ read_timeouts' = timeouts
            /\ response' = Respond(dispatch_tool(TOOL_REGISTRY, tool_name, o))
            /\ UNCHANGED <<attempt, delays>>

\* POST /mcp/tools/call, up to the first outbound call of the handler.
CallTool ==
    /\ phase = "idle"
    /\ \E tool_name \in ToolNames, params \in Arguments :
        /\ request' = [tool_name |-> tool_name, params |-> params]
        /\ IF tool_name = ""
           THEN /\ response' = MissingToolName
                /\ phase' = "done"
                /\ UNCHANGED <<dispatched, ip, flags, attempt, delays, helper_exception, read_timeouts>>
           ELSE IF /\ tool_name \in DOMAIN ALL_TOOL_SCHEMAS
                   /\ validate_params(params, ALL_TOOL_SCHEMAS[tool_name].input_schema) # << >>
           THEN /\ response' = ValidationFailed(tool_name,
                        validate_params(params, ALL_TOOL_SCHEMAS[tool_name].input_schema))
                /\ phase' = "done"
                /\ UNCHANGED <<dispatched, ip, flags, attempt, delays, helper_exception, read_timeouts>>
           ELSE IF tool_name \notin DOMAIN TOOL_REGISTRY
           THEN /\ response' = Respond(UnknownTool)
                /\ phase' = "done"
                /\ UNCHANGED <<dispatched, ip, flags, attempt, delays, helper_exception, read_timeouts>>
           ELSE /\ dispatched' = TRUE
                /\ Continue(tool_name, Run(HandlerOf(TOOL_REGISTRY[tool_name].handler, tool_name),
                                1, {}, params), NoExc, 0)
    /\ UNCHANGED <<settings, TOOL_REGISTRY, ALL_TOOL_SCHEMAS, imported, calls, hitl_requests,
                   unit_vars, hitl_vars>>

\* json.dumps of a params dict, and json.loads of the text.
json_dumps(params) == [json |-> params]
json_loads(text) == text.json

\* The row perform_human_validation inserts.
HitlRecord(workflow_name, tool_name, params) ==
    [id |-> Len(hitl_requests) + 1, workflow_name |-> workflow_name, tool_name |-> tool_name,
     original_params |-> json_dumps(params), status |-> "pending",
     expires_at |-> now + hitl_timeout_minutes]

\* One attempt of the outbound call the handler awaits: the retry wrapper
\* sleeps and tries again, or the helper returns or raises and the handler
\* runs on to its next outbound call or to its end.
Attempt ==
    /\ phase = "running"
    /\ \E r0 \in AttemptResults(Handler[ip]) :
        LET s == Handler[ip]
            r == HelperResult(s, r0)
            timeouts == IF r.exc.cls = "ReadTimeout" THEN read_timeouts + 1 ELSE read_timeouts
        IN  /\ calls' = IF r.sent /\ attempt = 1
                        THEN Append(calls, [helper |-> s.helper, op |-> s.op])
                        ELSE calls
            /\ hitl_requests' = IF r.kind = "ok" /\ s.op = "execute_sql INSERT INTO hitl_requests"
                                THEN Append(hitl_requests,
                                            HitlRecord("create_and_send_facture",
                                                       request.tool_name, request.params))
                                ELSE hitl_requests
            /\ IF r.kind = "fail" /\ s.helper # "telegram" /\ retry_with_backoff(BaseRetry, r.exc, attempt)
               THEN /\ attempt' = attempt + 1
                    /\ delays' = Append(delays, Delay(BaseRetry, attempt))
                    /\ read_timeouts' = timeouts
                    /\ UNCHANGED <<phase, ip, flags, response, helper_exception>>
               ELSE Continue(request.tool_name,
                             IF r.kind = "fail"
                             THEN OnError(r.exc, Handler, ip, flags, request.params)
                             ELSE Apply(s.react[r.shape], Handler, ip, flags, request.params),
                             r.exc, timeouts)
    /\ UNCHANGED <<settings, TOOL_REGISTRY, ALL_TOOL_SCHEMAS, imported, request, dispatched,
                   unit_vars, hitl_vars>>

\* The response is sent; the server waits for the next request.
Finish ==
    /\ phase = "done"
    /\ phase' = "idle"
    /\ request' = NoRequest
    /\ dispatched' = FALSE
    /\ ip' = 0
    /\ flags' = {}
    /\ attempt' = 0
    /\ delays' = << >>
    /\ helper_exception' = NoExc
    /\ read_timeouts' = 0
    /\ calls' = << >>
    /\ response' = NoResponse
    /\ UNCHANGED <<settings, TOOL_REGISTRY, ALL_TOOL_SCHEMAS, imported, hitl_requests,
                   unit_vars, hitl_vars>>

Next == ImportModule \/ BuildAllToolSchemas \/ CallTool \/ Attempt \/ Finish

Spec == Init /\ [][Next]_vars

\* ------------------------------------------------------------------------
\* validate_params on its own
\* ------------------------------------------------------------------------
\* A params dict has at most this many keys.
MaxParams == 2

VFields == {"limit", "statut", "notes"}
VValues == {StrV("x"), StrV("y"), IntV(1), FloatV(1), BoolV(TRUE), NullV, DictV, ListV}
VTypes == {"string", "number", "integer", "boolean", "object", "array", ""}
VEnums == {{}, {StrV("x"), IntV(1)}}

\* The dicts with at most MaxParams keys.
VParams ==
    {p \in UNION {[1..n -> [k : VFields, v : VValues]] : n \in 0..MaxParams} :
        \A i, j \in 1..Len(p) : i # j => p[i].k # p[j].k}

\* The schemas: "limit" is undeclared or declared with any type and enum,
\* "statut" is undeclared or a string, "notes" is never declared; any of the
\* first two can be required.
Undeclared == Prop("undeclared", {})
VProperties(a, b) ==
    (IF a = Undeclared THEN << >> ELSE ("limit" :> a))
    @@ (IF b = Undeclared THEN << >> ELSE ("statut" :> b))
VSchemas ==
    {[required |-> r, properties |-> VProperties(a, b)] :
        r \in {<< >>, <<"limit">>, <<"statut">>, <<"limit", "statut">>},
        a \in {Undeclared} \cup {Prop(t, e) : t \in VTypes, e \in VEnums},
        b \in {Undeclared, Prop("string", {})}}

InitValidate ==
    /\ settings = [hitl_enabled |-> FALSE, telegram_configured |-> FALSE, unset |-> {}]
    /\ TOOL_REGISTRY = << >>
    /\ ALL_TOOL_SCHEMAS = << >>
    /\ imported = 0
    /\ phase = "validate"
    /\ request = NoRequest
    /\ dispatched = FALSE
    /\ ip = 0
    /\ flags = {}
    /\ attempt = 0
    /\ delays = << >>
    /\ helper_exception = NoExc
    /\ read_timeouts = 0
    /\ calls = << >>
    /\ response = NoResponse
    /\ hitl_requests = << >>
    /\ vparams \in VParams
    /\ vschema \in VSchemas
    /\ verrors = << >>
    /\ RetryUnused
    /\ telegram_webhook_url = TRUE
    /\ HitlUnused

\* errors = validate_params(params, input_schema)
Validate ==
    /\ phase = "validate"
    /\ verrors' = validate_params(vparams, vschema)
    /\ phase' = "validated"
    /\ UNCHANGED <<settings, TOOL_REGISTRY, ALL_TOOL_SCHEMAS, imported, request, dispatched, ip,
                   flags, attempt, delays, helper_exception, read_timeouts, calls, response,
                   hitl_requests, vparams, vschema, retry_config, retry_script,
                   registered, tool_info, write_vars, needs_vars,
                   hitl_vars>>

NextValidate == Validate

SpecValidate == InitValidate /\ [][NextValidate]_vars

\* ------------------------------------------------------------------------
\* retry_with_backoff on its own
\* ------------------------------------------------------------------------
\* The decorator is applied with max_attempts up to this.
MaxRetryAttempts == 4

\* What one call of the wrapped function does: it returns, or it raises.
RetryOutcomes ==
    {Ok("json_object")}
    \cup {Fail(e, TRUE) : e \in {Exc("HTTPStatusError", 500, "text", ""),
                                Exc("HTTPStatusError", 400, "text", ""),
                                Exc("ConnectError", 0, "", ""),
                                Exc("ReadTimeout", 0, "", ""),
                                Exc("HTTPException", 422, "", "Validation failed")}}
    \cup {Fail(Exc("RuntimeError", 0, "", NotConfigured("database")), FALSE)}

RetryConfigs ==
    {RetryConfig(a, b, c) : a \in 1..MaxRetryAttempts, b \in {base_delay, 2}, c \in {3, max_delay}}

InitRetry ==
    /\ settings = [hitl_enabled |-> FALSE, telegram_configured |-> FALSE, unset |-> {}]
    /\ TOOL_REGISTRY = << >>
    /\ ALL_TOOL_SCHEMAS = << >>
    /\ imported = 0
    /\ phase = "retry"
    /\ request = NoRequest
    /\ dispatched = FALSE
    /\ ip = 0
    /\ flags = {}
    /\ attempt = 1
    /\ delays = << >>
    /\ helper_exception = NoExc
    /\ read_timeouts = 0
    /\ calls = << >>
    /\ response = NoResponse
    /\ hitl_requests = << >>
    /\ vparams = << >>
    /\ vschema = [required |-> << >>, properties |-> << >>]
    /\ verrors = << >>
    /\ retry_config \in RetryConfigs
    /\ retry_script \in [1..retry_config.max_attempts -> RetryOutcomes]
    /\ registered = << >>
    /\ tool_info = NoToolInfo
    /\ WriteUnused
    /\ telegram_webhook_url = TRUE
    /\ HitlUnused

RetryUnchanged ==
    UNCHANGED <<settings, TOOL_REGISTRY, ALL_TOOL_SCHEMAS, imported, request, dispatched, ip,
                flags, read_timeouts, calls, response, hitl_requests, vparams, vschema, verrors,
                retry_config, retry_script,
                   registered, tool_info, write_vars, needs_vars,
                   hitl_vars>>

\* return await func(*args, **kwargs)
RetryReturn ==
    /\ phase = "retry"
    /\ retry_script[attempt].kind = "ok"
    /\ phase' = "returned"
    /\ UNCHANGED <<attempt, delays, helper_exception>>
    /\ RetryUnchanged

\* An except clause sleeps; the for loop goes to the next attempt.
RetrySleep ==
    /\ phase = "retry"
    /\ retry_script[attempt].kind = "fail"
    /\ retry_with_backoff(retry_config, retry_script[attempt].exc, attempt)
    /\ delays' = Append(delays, Delay(retry_config, attempt))
    /\ attempt' = attempt + 1
    /\ UNCHANGED <<phase, helper_exception>>
    /\ RetryUnchanged

\* An except clause raises.
RetryRaise ==
    /\ phase = "retry"
    /\ retry_script[attempt].kind = "fail"
    /\ ~retry_with_backoff(retry_config, retry_script[attempt].exc, attempt)
    /\ phase' = "raised"
    /\ helper_exception' = retry_script[attempt].exc
    /\ UNCHANGED <<attempt, delays>>
    /\ RetryUnchanged

NextRetry == RetryReturn \/ RetrySleep \/ RetryRaise

SpecRetry == InitRetry /\ [][NextRetry]_vars

\* The event loop runs the coroutine on: asyncio.sleep returns, the call is made.
SpecRetryFair == SpecRetry /\ WF_vars(NextRetry)

\* ------------------------------------------------------------------------
\* The approval gate: utils/hitl.py and the scheduler of main.py
\* ------------------------------------------------------------------------
\* The hitl_requests table holds at most this many rows.
MaxHitlRequests == 1
\* The clock runs up to this minute.
MaxNow == 40
\* A step of the clock takes a record past its expiry.
ClockStep == hitl_timeout_minutes + 1

\* The params of the call that asks for approval, and what a human makes of them.
OriginalParams == << Arg("qualification_id", StrV("q1")), Arg("montant", IntV(2000)) >>
ModifiedParams == << Arg("qualification_id", StrV("q1")), Arg("montant", IntV(1800)) >>

\* The action of a response: the three buttons, and any other text.
HitlActions == {"approve", "reject", "modify", "cancel"}

\* The responses process_validation_response is called with.
HitlResponses ==
    {[request_id |-> i, action |-> a, modified_params |-> m] :
        i \in 1..MaxHitlRequests, a \in HitlActions, m \in {None}}
    \cup {[request_id |-> i, action |-> a, modified_params |-> m] :
        i \in 1..MaxHitlRequests, a \in {"modify"}, m \in {Some(<< >>), Some(ModifiedParams)}}

\* The store, get_hitl_request: the rows with this id.
get_hitl_request(table, request_id) == SelectSeq(table, LAMBDA row : row.id = request_id)

\* The store, update_hitl_request_status: a row leaves pending at most once.
update_hitl_request_status(table, request_id, new_status) ==
    [j \in DOMAIN table |->
        IF table[j].id = request_id /\ table[j].status = "pending"
        THEN [table[j] EXCEPT !.status = new_status]
        ELSE table[j]]

\* The store, timeout_expired_hitl_requests: the pending rows past their expiry.
timeout_expired_hitl_requests(table, t) ==
    [j \in DOMAIN table |->
        IF table[j].status = "pending" /\ table[j].expires_at < t
        THEN [table[j] EXCEPT !.status = "timed_out"]
        ELSE table[j]]

AlreadyProcessed_never(status) == FALSE

\* if request["status"] != "pending": raise HTTPException(409)
AlreadyProcessed(status) == status # "pending"

\* new_status = {...}.get(action, "rejected")
new_status(action) ==
    CASE action = "approve" -> "approved"
      [] action = "reject" -> "rejected"
      [] action = "modify" -> "modified"
      [] OTHER -> "rejected"

Resumes_unless_rejected(action) == action # "reject"

\* if action in ["approve", "modify"]
Resumes(action) == action \in {"approve", "modify"}

\* modified_params or json.loads(request["original_params"])
ResumeParams(modified_params, original_params) ==
    IF modified_params.some /\ modified_params.v # << >>
    THEN modified_params.v
    ELSE json_loads(original_params)

\* _resume_workflow: dispatch_tool(tool_name, params)
Resumption(row, modified_params) ==
    [request_id |-> row.id, tool_name |-> row.tool_name,
     params |-> ResumeParams(modified_params, row.original_params)]

RECURSIVE Finals(_, _, _)
\* Where a handler can end from where it stands at o, each outbound call
\* having returned or raised what its helper, retries included, can.
Finals(steps, o, params) ==
    IF o.kind # "call" THEN {o}
    ELSE UNION {Finals(steps,
                       IF r.kind = "fail"
                       THEN OnError(r.exc, steps, o.ip, o.flags, params)
                       ELSE Apply(steps[o.ip].react[r.shape], steps, o.ip, o.flags, params),
                       params) :
                r \in {HelperResult(steps[o.ip], r0) : r0 \in AttemptResults(steps[o.ip])}}

\* An RPC of the store returns, or call_supabase_rpc raises.
RpcOutcomes == {"ok", "fail"}

InitHitl ==
    /\ settings \in {st \in Settings : st.unset = {}}
    /\ TOOL_REGISTRY = << >>
    /\ ALL_TOOL_SCHEMAS = << >>
    /\ imported = 0
    /\ phase = "startup"
    /\ request = NoRequest
    /\ dispatched = FALSE
    /\ ip = 0
    /\ flags = {}
    /\ attempt = 0
    /\ delays = << >>
    /\ helper_exception = NoExc
    /\ read_timeouts = 0
    /\ calls = << >>
    /\ response = NoResponse
    /\ hitl_requests = << >>
    /\ vparams = << >>
    /\ vschema = [required |-> << >>, properties |-> << >>]
    /\ verrors = << >>
    /\ RetryUnused
    /\ telegram_webhook_url \in BOOLEAN
    /\ HitlUnused

HitlUnchanged ==
    UNCHANGED <<TOOL_REGISTRY, ALL_TOOL_SCHEMAS, imported, request, dispatched, ip, flags,
                attempt, delays, helper_exception, read_timeouts, calls, unit_vars>>

\* main.py startup_event: the webhook is configured and the sweep scheduled,
\* when HITL is enabled and the token and the webhook URL are set; an
\* exception on the way is logged and the server starts without the job.
StartupEvent ==
    /\ phase = "startup"
    /\ \E telegram_token \in (IF settings.telegram_configured THEN {TRUE} ELSE BOOLEAN),
          webhook \in RpcOutcomes :
        scheduler' = IF /\ settings.hitl_enabled /\ telegram_token /\ telegram_webhook_url
                        /\ webhook = "ok"
                     THEN "running"
                     ELSE "none"
    /\ phase' = "serving"
    /\ UNCHANGED <<settings, telegram_webhook_url, notified, now, responders, answered, resumed,
                   hitl_requests, response>>
    /\ HitlUnchanged

\* perform_human_validation, called by a handler for which
\* needs_hitl_validation returned True.
PerformHumanValidation ==
    /\ phase = "serving"
    /\ settings.hitl_enabled
    /\ Len(hitl_requests) < MaxHitlRequests
    /\ now + hitl_timeout_minutes < MaxNow
    /\ \E o \in Finals(perform_human_validation,
                      Run(perform_human_validation, 1, {"hitl"}, OriginalParams),
                      OriginalParams) :
        /\ hitl_requests' = IF "persisted" \in o.flags
                            THEN Append(hitl_requests,
                                        HitlRecord("create_and_send_facture",
                                                   "create_and_send_facture", OriginalParams))
                            ELSE hitl_requests
        /\ notified' = IF "notified" \in o.flags
                       THEN notified \cup {Len(hitl_requests) + 1}
                       ELSE notified
    /\ UNCHANGED <<settings, phase, telegram_webhook_url, scheduler, now, responders, answered,
                   resumed, response>>
    /\ HitlUnchanged

\* The call of responder r ends: what it saw of the row, the status code of
\* its answer, and whether it resumed the workflow.
Answer(r, status_code, did_resume) ==
    [request_id |-> r.request_id, action |-> r.action, modified_params |-> r.modified_params,
     seen |-> r.seen, status_code |-> status_code, resumed |-> did_resume]

\* A callback query can name the request: Telegram sends the callback_data of
\* a button of a message the bot delivered, or the store no longer holds the
\* request the button names.
Delivered(request_id) ==
    \/ request_id \in notified
    \/ get_hitl_request(hitl_requests, request_id) = << >>

\* process_validation_response up to its first RPC: the request is fetched and
\* checked.
GetHitlRequest(w) ==
    /\ phase = "serving"
    /\ responders[w].pc = "idle"
    /\ \E v \in {x \in HitlResponses : Delivered(x.request_id)}, rpc \in RpcOutcomes :
        LET r == [IdleResponder EXCEPT !.request_id = v.request_id, !.action = v.action,
                                       !.modified_params = v.modified_params]
            request_data == get_hitl_request(hitl_requests, v.request_id)
        IN  IF rpc = "fail"
            THEN answered' = Answer(r, 500, FALSE) /\ UNCHANGED responders
            ELSE IF request_data = << >>
            THEN answered' = Answer(r, 404, FALSE) /\ UNCHANGED responders
            ELSE IF AlreadyProcessed(request_data[1].status)
            THEN /\ answered' = Answer([r EXCEPT !.seen = request_data[1].status], 409, FALSE)
                 /\ UNCHANGED responders
            ELSE /\ responders' = [responders EXCEPT ![w] =
                                       [r EXCEPT !.pc = "update", !.seen = request_data[1].status]]
                 /\ UNCHANGED answered
    /\ UNCHANGED <<settings, phase, telegram_webhook_url, notified, scheduler, now, resumed, hitl_requests,
                   response>>
    /\ HitlUnchanged

\* process_validation_response from the status update on: the update, and
\* for an approval the resumed dispatch and the UPDATE of workflow_result.
UpdateAndResume(w) ==
    /\ phase = "serving"
    /\ responders[w].pc = "update"
    /\ \E update \in RpcOutcomes, store \in RpcOutcomes :
        LET r == responders[w]
            row == get_hitl_request(hitl_requests, r.request_id)[1]
        IN  IF update = "fail"
            THEN /\ answered' = Answer(r, 500, FALSE)
                 /\ UNCHANGED <<hitl_requests, resumed>>
            ELSE /\ hitl_requests' = update_hitl_request_status(hitl_requests, r.request_id,
                                                               new_status(r.action))
                 /\ IF Resumes(r.action)
                    THEN /\ resumed' = Append(resumed, Resumption(row, r.modified_params))
                         /\ answered' = Answer(r, IF store = "ok" THEN 200 ELSE 500, TRUE)
                    ELSE /\ answered' = Answer(r, 200, FALSE)
                         /\ UNCHANGED resumed
    /\ responders' = [responders EXCEPT ![w] = IdleResponder]
    /\ UNCHANGED <<settings, phase, telegram_webhook_url, notified, scheduler, now, response>>
    /\ HitlUnchanged

\* timeout_expired_requests, run by the scheduler at its interval: the RPC
\* marks the expired rows, or it raises, the error is logged and 0 returned.
TimeoutExpiredRequests ==
    /\ phase = "serving"
    /\ scheduler = "running"
    /\ \E rpc \in RpcOutcomes :
        hitl_requests' = IF rpc = "ok"
                         THEN timeout_expired_hitl_requests(hitl_requests, now)
                         ELSE hitl_requests
    /\ UNCHANGED <<settings, phase, telegram_webhook_url, notified, scheduler, now, responders, resumed,
                   answered, response>>
    /\ HitlUnchanged

\* Time passes.
Tick ==
    /\ phase = "serving"
    /\ now + ClockStep <= MaxNow
    /\ now' = now + ClockStep
    /\ UNCHANGED <<settings, phase, telegram_webhook_url, notified, scheduler, responders, resumed,
                   answered, response, hitl_requests>>
    /\ HitlUnchanged

NextHitl ==
    \/ StartupEvent
    \/ PerformHumanValidation
    \/ \E w \in Responders : GetHitlRequest(w)
    \/ \E w \in Responders : UpdateAndResume(w)
    \/ TimeoutExpiredRequests
    \/ Tick

SpecHitl == InitHitl /\ [][NextHitl]_vars

\* A run of the job that marks a row.
Sweeps == TimeoutExpiredRequests /\ hitl_requests' # hitl_requests

\* The server starts, time passes, and the scheduler runs its job every 5
\* minutes, the store answering at least now and then; nobody has to respond.
SpecHitlFair ==
    SpecHitl /\ WF_vars(StartupEvent) /\ WF_vars(Tick) /\ WF_vars(Sweeps)

\* ------------------------------------------------------------------------
\* tools_registry.py on its own: register_tool and get_tool_info
\* ------------------------------------------------------------------------
\* At most this many register_tool calls are made.
MaxRegistrations == 3

\* The decorators that can be applied: two names, each with either category,
\* description and handler.
RegisterCalls ==
    [name : {"get_facture_by_id", "generate_facture_pdf"},
     category : {"read", "workflow"},
     description_short : {description_short("get_facture_by_id"),
                          description_short("generate_facture_pdf")},
     handler : {"factures", "workflows"}]

InitRegistry ==
    /\ settings = [hitl_enabled |-> FALSE, telegram_configured |-> FALSE, unset |-> {}]
    /\ TOOL_REGISTRY = << >>
    /\ ALL_TOOL_SCHEMAS = << >>
    /\ imported = 0
    /\ phase = "registry"
    /\ request = NoRequest
    /\ dispatched = FALSE
    /\ ip = 0
    /\ flags = {}
    /\ attempt = 0
    /\ delays = << >>
    /\ helper_exception = NoExc
    /\ read_timeouts = 0
    /\ calls = << >>
    /\ response = NoResponse
    /\ hitl_requests = << >>
    /\ vparams = << >>
    /\ vschema = [required |-> << >>, properties |-> << >>]
    /\ verrors = << >>
    /\ RetryUnused
    /\ telegram_webhook_url = TRUE
    /\ HitlUnused

RegistryUnchanged ==
    UNCHANGED <<settings, ALL_TOOL_SCHEMAS, imported, phase, request, dispatched, ip, flags,
                attempt, delays, helper_exception, read_timeouts, calls, response, hitl_requests,
                vparams, vschema, verrors, retry_config, retry_script, write_vars, needs_vars,
                   hitl_vars>>

\* @register_tool(name, category, description_short) applied to a handler.
RegisterTool ==
    /\ phase = "registry"
    /\ Len(registered) < MaxRegistrations
    /\ \E r \in RegisterCalls :
        /\ TOOL_REGISTRY' = register_tool(TOOL_REGISTRY, r)
        /\ registered' = Append(registered, r)
    /\ UNCHANGED tool_info
    /\ RegistryUnchanged

\* get_tool_info(tool_name)
GetToolInfo ==
    /\ phase = "registry"
    /\ \E tool_name \in {"get_facture_by_id", "generate_facture_pdf", "drop_database"} :
        tool_info' = [tool_name |-> tool_name, info |-> get_tool_info(TOOL_REGISTRY, tool_name)]
    /\ UNCHANGED <<TOOL_REGISTRY, registered>>
    /\ RegistryUnchanged

NextRegistry == RegisterTool \/ GetToolInfo

SpecRegistry == InitRegistry /\ [][NextRegistry]_vars

\* ------------------------------------------------------------------------
\* The WRITE handlers on their own
\* ------------------------------------------------------------------------
WriteTools ==
    {"upsert_entreprise", "upsert_qualification", "create_facture", "update_facture",
     "delete_facture", "mark_facture_paid"}

\* The module that defines a WRITE tool.
WriteModule(tool_name) ==
    CASE tool_name = "upsert_entreprise" -> "entreprises"
      [] tool_name \in {"upsert_qualification"} -> "qualifications"
      [] tool_name = "mark_facture_paid" -> "paiements"
      [] OTHER -> "factures"

\* One entry of a payload literal: key: params[f], key: params.get(f), or
\* key: a constant.
Index(k, f) == [k |-> k, from |-> "index", f |-> f, v |-> NullV]
GetOrNone(k, f) == [k |-> k, from |-> "get", f |-> f, v |-> NullV]
Const(k, v) == [k |-> k, from |-> "const", f |-> "", v |-> v]

\* The payload literal of each WRITE handler.
PayloadLiteral(tool_name) ==
    CASE tool_name = "upsert_entreprise" ->        \* tools/entreprises.py:196-202
            << Index("nom", "nom"), GetOrNone("email", "email"),
               GetOrNone("telephone", "telephone"), GetOrNone("adresse", "adresse"),
               GetOrNone("notes", "notes") >>
      [] tool_name = "upsert_qualification" ->     \* tools/qualifications.py:145-151
            << Index("entreprise_id", "entreprise_id"), Index("statut", "statut"),
               GetOrNone("montant_estime", "montant_estime"),
               GetOrNone("description", "description"),
               GetOrNone("date_prevue", "date_prevue") >>
      [] tool_name = "create_facture" ->           \* tools/factures.py:268-274
            << Index("qualification_id", "qualification_id"), Index("montant", "montant"),
               GetOrNone("description", "description"),
               GetOrNone("date_emission", "date_emission"),
               GetOrNone("date_echeance", "date_echeance") >>
      [] tool_name = "update_facture" ->           \* tools/factures.py:291-295
            << GetOrNone("montant", "montant"), GetOrNone("description", "description"),
               GetOrNone("date_echeance", "date_echeance") >>
      [] tool_name = "delete_facture" -> << >>     \* tools/factures.py:312
      [] tool_name = "mark_facture_paid" ->        \* tools/paiements.py:127-131
            << Const("payment_status", StrV("paid")),
               GetOrNone("payment_date", "payment_date"),
               GetOrNone("payment_method", "payment_method") >>

\* The keys the handler reads with params[...]: a missing one is a KeyError.
IndexedKeys(tool_name) ==
    {PayloadLiteral(tool_name)[i].f :
        i \in {j \in 1..Len(PayloadLiteral(tool_name)) : PayloadLiteral(tool_name)[j].from = "index"}}
    \cup (IF tool_name \in {"update_facture", "delete_facture", "mark_facture_paid"}
          THEN {"facture_id"} ELSE {})

\* The keys of a sequence of entries that satisfy keep, in order.
RECURSIVE Keep(_, _)
Keep(entries, kept) ==
    IF entries = << >> THEN << >>
    ELSE (IF Head(entries).k \in kept THEN <<Head(entries)>> ELSE << >>)
         \o Keep(Tail(entries), kept)

\* A payload that leaves out the fields the caller did not send.
WritePayload_omits_absent(tool_name, params) ==
    LET literal == PayloadLiteral(tool_name)
        sent == {literal[i].k : i \in {j \in 1..Len(literal) :
                                          literal[j].from = "const" \/ Has(params, literal[j].f)}}
        entries == Keep(literal, sent)
    IN  [i \in 1..Len(entries) |->
            Arg(entries[i].k,
                IF entries[i].from = "const" THEN entries[i].v ELSE Get(params, entries[i].f))]

\* The payload dict the handler builds from params.
WritePayload(tool_name, params) ==
    LET literal == PayloadLiteral(tool_name)
    IN  [i \in 1..Len(literal) |->
            Arg(literal[i].k,
                IF literal[i].from = "const" THEN literal[i].v ELSE Get(params, literal[i].f))]

\* {**data, key: value}: the key keeps its place when data has it, and goes
\* last otherwise.
DictUpdate(data, key, value) ==
    IF Has(data, key)
    THEN [i \in 1..Len(data) |-> IF data[i].k = key THEN Arg(key, value) ELSE data[i]]
    ELSE Append(data, Arg(key, value))

\* What the handlers look at in the body the mutation service answers with:
\* not data.get("validated", False), and data.get("id") is None.
ShapeOf(data) ==
    IF Truthy(Get(data, "validated"))
    THEN (IF Get(data, "id").t = "NoneType" THEN "validated_noid" ELSE "validated_id")
    ELSE (IF Get(data, "id").t = "NoneType" THEN "unvalidated_noid" ELSE "unvalidated_id")

\* The value a handler returns.
ResultValue(res, data) ==
    IF res = "entity_validated" THEN DictUpdate(data, "validated", BoolV(TRUE)) ELSE data

\* The params the handlers are applied to.
WriteParams ==
    { << >>,
      << Arg("nom", StrV("Acme")) >>,
      << Arg("nom", StrV("Acme")), Arg("email", StrV("a@b.fr")), Arg("notes", StrV("vip")) >>,
      << Arg("entreprise_id", StrV("e1")), Arg("statut", StrV("Nouveau")) >>,
      << Arg("qualification_id", StrV("q1")), Arg("montant", IntV(1000)) >>,
      << Arg("facture_id", StrV("f1")) >>,
      << Arg("facture_id", StrV("f1")), Arg("montant", IntV(1200)),
         Arg("payment_date", StrV("2026-01-31")) >> }

\* The bodies the mutation service answers with.
WorkerBodies ==
    { << >>,
      << Arg("id", StrV("e1")), Arg("nom", StrV("Acme")) >>,
      << Arg("nom", StrV("Acme")) >>,
      << Arg("id", NullV), Arg("nom", StrV("Acme")) >>,
      << Arg("id", StrV("e1")), Arg("validated", BoolV(TRUE)) >>,
      << Arg("validated", BoolV(TRUE)) >>,
      << Arg("validated", BoolV(FALSE)), Arg("id", StrV("e1")) >>,
      << Arg("validated", BoolV(FALSE)), Arg("discrepancies", ListV) >>,
      << Arg("success", BoolV(TRUE)) >> }

\* What the mutation service does with the request: it answers with a body,
\* or the call fails for good.
WorkerAnswers ==
    {[kind |-> "ok", data |-> Some(d), exc |-> NoExc] : d \in WorkerBodies}
    \cup {[kind |-> "fail", data |-> None, exc |-> Exc("HTTPStatusError", 500, "json", "")]}

InitWrite ==
    /\ settings = [hitl_enabled |-> FALSE, telegram_configured |-> FALSE, unset |-> {}]
    /\ TOOL_REGISTRY = << >>
    /\ ALL_TOOL_SCHEMAS = << >>
    /\ imported = 0
    /\ phase = "write"
    /\ request \in [tool_name : WriteTools, params : WriteParams]
    /\ dispatched = FALSE
    /\ ip = 0
    /\ flags = {}
    /\ attempt = 0
    /\ delays = << >>
    /\ helper_exception = NoExc
    /\ read_timeouts = 0
    /\ calls = << >>
    /\ response = NoResponse
    /\ hitl_requests = << >>
    /\ vparams = << >>
    /\ vschema = [required |-> << >>, properties |-> << >>]
    /\ verrors = << >>
    /\ RetryUnused
    /\ telegram_webhook_url = TRUE
    /\ HitlUnused

\* await handler(params), for the handler of a WRITE tool.
CallWriteHandler ==
    /\ phase = "write"
    /\ phase' = "written"
    /\ LET tool_name == request.tool_name
           params == request.params
           steps == HandlerOf(WriteModule(tool_name), tool_name)
       IN  IF ~(IndexedKeys(tool_name) \subseteq Keys(params))
           THEN /\ handler_result' = [kind |-> "raise", value |-> << >>,
                                      exc |-> Exc("KeyError", 0, "", "KeyError")]
                /\ UNCHANGED <<payload, worker_data, calls>>
           ELSE \E a \in WorkerAnswers :
                LET r == IF a.kind = "ok"
                         THEN HelperResult(steps[1], Ok(ShapeOf(a.data.v)))
                         ELSE Fail(a.exc, TRUE)
                    o == IF r.kind = "fail"
                         THEN OnError(r.exc, steps, 1, {}, params)
                         ELSE Apply(steps[1].react[r.shape], steps, 1, {}, params)
                IN  /\ payload' = WritePayload(tool_name, params)
                    /\ calls' = Append(calls, [helper |-> steps[1].helper, op |-> steps[1].op])
                    /\ worker_data' = a.data
                    /\ handler_result' =
                          IF o.kind = "return"
                          THEN [kind |-> "return", value |-> ResultValue(o.res, a.data.v),
                                exc |-> NoExc]
                          ELSE [kind |-> "raise", value |-> << >>, exc |-> o.exc]
    /\ UNCHANGED <<settings, TOOL_REGISTRY, ALL_TOOL_SCHEMAS, imported, request, dispatched, ip,
                   flags, attempt, delays, helper_exception, read_timeouts, response,
                   hitl_requests, vparams, vschema, verrors, retry_config, retry_script,
                   registered, tool_info, needs_vars, hitl_vars>>

NextWrite == CallWriteHandler

SpecWrite == InitWrite /\ [][NextWrite]_vars

\* ------------------------------------------------------------------------
\* The workflow resumed after an approval
\* ------------------------------------------------------------------------
RECURSIVE ImportAll(_)
\* The registry once the modules mods have been imported, in that order.
ImportAll(mods) ==
    IF mods = << >> THEN << >>
    ELSE RegisterAll(ImportAll(SubSeq(mods, 1, Len(mods) - 1)), Registrations(mods[Len(mods)]))

\* The params recorded with the pending request: an invoice over the
\* threshold, and one under it that is to be marked paid.
ApprovedParams ==
    { << Arg("qualification_id", StrV("q1")), Arg("montant", IntV(2000)) >>,
      << Arg("qualification_id", StrV("q1")), Arg("montant", IntV(1000)),
         Arg("recipient_email", StrV("a@b.fr")), Arg("mark_as_paid", BoolV(TRUE)) >> }

\* The server has started and the store holds one pending request, recorded
\* by perform_human_validation for create_and_send_facture.
InitResume ==
    /\ settings \in Settings
    /\ TOOL_REGISTRY = ImportAll(ImportOrder)
    /\ ALL_TOOL_SCHEMAS = MergeSchemas(ImportOrder)
    /\ imported = Len(ImportOrder)
    /\ phase = "webhook"
    /\ request = NoRequest
    /\ dispatched = FALSE
    /\ ip = 0
    /\ flags = {}
    /\ attempt = 0
    /\ delays = << >>
    /\ helper_exception = NoExc
    /\ read_timeouts = 0
    /\ calls = << >>
    /\ response = NoResponse
    /\ \E params \in ApprovedParams :
          hitl_requests = << [id |-> 1, workflow_name |-> "create_and_send_facture",
                              tool_name |-> "create_and_send_facture",
                              original_params |-> json_dumps(params), status |-> "pending",
                              expires_at |-> hitl_timeout_minutes] >>
    /\ vparams = << >>
    /\ vschema = [required |-> << >>, properties |-> << >>]
    /\ verrors = << >>
    /\ RetryUnused
    /\ telegram_webhook_url = TRUE
    /\ scheduler = "none"
    /\ now = 0
    /\ responders = [w \in Responders |-> IdleResponder]
    /\ answered = NoAnswer
    /\ resumed = << >>
    /\ notified = {1}

\* The process_validation_response call that approves request 1.
Approval ==
    [IdleResponder EXCEPT !.request_id = 1, !.action = "approve", !.seen = "pending"]

\* process_validation_response(1, "approve"), the store answering, up to the
\* first outbound call of the handler that _resume_workflow dispatches.
ApproveAndResume ==
    /\ phase = "webhook"
    /\ ~AlreadyProcessed(hitl_requests[1].status)
    /\ LET row == get_hitl_request(hitl_requests, 1)[1]
           r == Resumption(row, None)
       IN  /\ hitl_requests' = update_hitl_request_status(hitl_requests, 1, new_status("approve"))
           /\ resumed' = Append(resumed, r)
           /\ request' = [tool_name |-> r.tool_name, params |-> r.params]
           /\ dispatched' = TRUE
           /\ Continue(r.tool_name,
                       Run(HandlerOf(TOOL_REGISTRY[r.tool_name].handler, r.tool_name), 1, {},
                           r.params),
                       NoExc, 0)
    /\ UNCHANGED <<settings, TOOL_REGISTRY, ALL_TOOL_SCHEMAS, imported, calls, unit_vars,
                   telegram_webhook_url, notified, scheduler, now, responders, answered>>

\* The dispatch has ended: workflow_result is stored and the webhook answered.
StoreWorkflowResult ==
    /\ phase = "done"
    /\ phase' = "stored"
    /\ \E store \in RpcOutcomes :
          answered' = Answer(Approval, IF store = "ok" THEN 200 ELSE 500, TRUE)
    /\ UNCHANGED <<settings, TOOL_REGISTRY, ALL_TOOL_SCHEMAS, imported, request, dispatched, ip,
                   flags, attempt, delays, helper_exception, read_timeouts, calls, response,
                   hitl_requests, unit_vars, telegram_webhook_url, notified, scheduler, now, responders,
                   resumed>>

NextResume == ApproveAndResume \/ Attempt \/ StoreWorkflowResult

SpecResume == InitResume /\ [][NextResume]_vars

\* Every outbound call is answered or times out, and the coroutine goes on.
SpecResumeFair == SpecResume /\ WF_vars(Attempt) /\ WF_vars(StoreWorkflowResult)

\* ------------------------------------------------------------------------
\* needs_hitl_validation on its own
\* ------------------------------------------------------------------------
\* The decision is evaluated at most this many times.
MaxEvaluations == 2

\* The workflow names and params the decision is asked for.
WorkflowNames == {"create_and_send_facture", "send_facture_email"}
NeedsParams ==
    { << >>,
      << Arg("qualification_id", StrV("q1")), Arg("montant", IntV(2000)) >>,
      << Arg("qualification_id", StrV("q1")), Arg("montant", IntV(1000)) >>,
      << Arg("montant", IntV(1000)) >>,
      << Arg("qualification_id", StrV("q1")), Arg("montant", NullV) >> }

\* What the query service answers to each of the two functions: a result of
\* one of the shapes the decision distinguishes, or a failure.
QueryAnswers ==
    [{"get_qualification_by_id", "count_factures_by_entreprise"} ->
        {"empty", "no_entreprise", "qualification", "zero", "some", "fail"}]

\* The outcome of the outbound call of step s under the answers.
Answered(s, answers) ==
    IF ServiceOf(s.helper) \in settings.unset
    THEN Fail(Exc("UnsupportedProtocol", 0, "", ""), FALSE)
    ELSE IF s.op \notin DOMAIN answers
    THEN Ok(CHOOSE sh \in DOMAIN s.react : TRUE)
    ELSE IF answers[s.op] \in DOMAIN s.react
    THEN Ok(answers[s.op])
    ELSE IF s.helper = "telegram"
    THEN Fail(Exc("TelegramError", 0, "", ""), TRUE)
    ELSE Fail(Exc("HTTPStatusError", 500, "json_object", ""), TRUE)

RECURSIVE Evaluate(_, _, _, _)
\* The steps run from where they stand at o to their end, each outbound call
\* answered as answers says: the end, and the requests issued on the way.
Evaluate(steps, o, params, answers) ==
    IF o.kind # "call" THEN [o |-> o, calls |-> << >>]
    ELSE LET s == steps[o.ip]
             r == Answered(s, answers)
             rest == Evaluate(steps,
                              IF r.kind = "fail"
                              THEN OnError(r.exc, steps, o.ip, o.flags, params)
                              ELSE Apply(s.react[r.shape], steps, o.ip, o.flags, params),
                              params, answers)
         IN  [o |-> rest.o,
              calls |-> (IF r.sent THEN <<[helper |-> s.helper, op |-> s.op]>> ELSE << >>)
                        \o rest.calls]

\* await needs_hitl_validation(workflow_name, params): "True", "False", or the
\* class of the exception raised, and the requests issued.
Decide(workflow_name, params, answers) ==
    IF workflow_name # "create_and_send_facture"
    THEN [decision |-> "False", calls |-> << >>]
    ELSE LET e == Evaluate(needs_hitl_validation, Run(needs_hitl_validation, 1, {}, params),
                           params, answers)
         IN  [decision |-> IF e.o.kind = "raise" THEN e.o.exc.cls
                           ELSE IF "hitl" \in e.o.flags THEN "True" ELSE "False",
              calls |-> e.calls]

InitNeeds ==
    /\ settings \in {st \in Settings : st.unset \subseteq {"supabase"}}
    /\ TOOL_REGISTRY = << >>
    /\ ALL_TOOL_SCHEMAS = << >>
    /\ imported = 0
    /\ phase = "needs"
    /\ request \in [tool_name : WorkflowNames, params : NeedsParams]
    /\ dispatched = FALSE
    /\ ip = 0
    /\ flags = {}
    /\ attempt = 0
    /\ delays = << >>
    /\ helper_exception = NoExc
    /\ read_timeouts = 0
    /\ calls = << >>
    /\ response = NoResponse
    /\ hitl_requests = << >>
    /\ vparams = << >>
    /\ vschema = [required |-> << >>, properties |-> << >>]
    /\ verrors = << >>
    /\ retry_config = BaseRetry
    /\ retry_script = << >>
    /\ registered = << >>
    /\ tool_info = NoToolInfo
    /\ payload = << >>
    /\ worker_data = None
    /\ handler_result = NoResult
    /\ query_answers \in {a \in QueryAnswers :
                             /\ a["get_qualification_by_id"] \in
                                    {"empty", "no_entreprise", "qualification", "fail"}
                             /\ a["count_factures_by_entreprise"] \in {"zero", "some", "fail"}}
    /\ decisions = << >>
    /\ gather = NoGather
    /\ http_client = NoClient
    /\ telegram_webhook_url = TRUE
    /\ HitlUnused

\* One evaluation of needs_hitl_validation(workflow_name, params): its
\* requests are issued, a record a request inserts is in the store, and the
\* decision is returned.
NeedsHitlValidation ==
    /\ phase = "needs"
    /\ Len(decisions) < MaxEvaluations
    /\ LET d == Decide(request.tool_name, request.params, query_answers)
       IN  /\ decisions' = Append(decisions, d.decision)
           /\ calls' = calls \o d.calls
           /\ hitl_requests' =
                 IF \E k \in 1..Len(d.calls) : d.calls[k].op = "execute_sql INSERT INTO hitl_requests"
                 THEN Append(hitl_requests,
                             HitlRecord(request.tool_name, request.tool_name, request.params))
                 ELSE hitl_requests
    /\ UNCHANGED <<settings, TOOL_REGISTRY, ALL_TOOL_SCHEMAS, imported, phase, request, dispatched,
                   ip, flags, attempt, delays, helper_exception, read_timeouts, response,
                   vparams, vschema, verrors, retry_config, retry_script, registered, tool_info,
                   write_vars, query_answers, gather, http_client, hitl_vars>>

NextNeeds == NeedsHitlValidation

SpecNeeds == InitNeeds /\ [][NextNeeds]_vars

\* ------------------------------------------------------------------------
\* perform_human_validation on its own, and what becomes of its record
\* ------------------------------------------------------------------------
\* What the store and the Bot API answer to the three requests of
\* perform_human_validation: the request succeeds, or it fails.
ValidationAnswers ==
    [{"execute_sql INSERT INTO hitl_requests", "send_message",
      "execute_sql UPDATE hitl_requests SET telegram_message_id"} -> {"any", "fail"}]

\* The server is up, with or without the sweep scheduled, and no request has
\* asked for approval yet.
InitValidation ==
    /\ settings \in {st \in Settings : st.hitl_enabled /\ st.unset = {}}
    /\ TOOL_REGISTRY = << >>
    /\ ALL_TOOL_SCHEMAS = << >>
    /\ imported = 0
    /\ phase = "serving"
    /\ request = NoRequest
    /\ dispatched = FALSE
    /\ ip = 0
    /\ flags = {}
    /\ attempt = 0
    /\ delays = << >>
    /\ helper_exception = NoExc
    /\ read_timeouts = 0
    /\ calls = << >>
    /\ response = NoResponse
    /\ hitl_requests = << >>
    /\ vparams = << >>
    /\ vschema = [required |-> << >>, properties |-> << >>]
    /\ verrors = << >>
    /\ retry_config = BaseRetry
    /\ retry_script = << >>
    /\ registered = << >>
    /\ tool_info = NoToolInfo
    /\ payload = << >>
    /\ worker_data = None
    /\ handler_result = NoResult
    /\ query_answers \in ValidationAnswers
    /\ decisions = << >>
    /\ gather = NoGather
    /\ http_client = NoClient
    /\ telegram_webhook_url = TRUE
    /\ scheduler \in {"none", "running"}
    /\ now = 0
    /\ responders = [w \in Responders |-> IdleResponder]
    /\ answered = NoAnswer
    /\ resumed = << >>
    /\ notified = {}

\* await perform_human_validation("create_and_send_facture",
\* "create_and_send_facture", params): its requests are issued in order, the
\* row it inserts is in the store, the message it sends is delivered, and the
\* caller has its result or its exception.
CallPerformHumanValidation ==
    /\ phase = "serving"
    /\ response = NoResponse
    /\ now + hitl_timeout_minutes < MaxNow
    /\ LET e == Evaluate(perform_human_validation,
                         Run(perform_human_validation, 1, {"hitl"}, OriginalParams),
                         OriginalParams, query_answers)
       IN  /\ calls' = e.calls
           /\ flags' = e.o.flags
           /\ hitl_requests' = IF "persisted" \in e.o.flags
                               THEN Append(hitl_requests,
                                           HitlRecord("create_and_send_facture",
                                                      "create_and_send_facture", OriginalParams))
                               ELSE hitl_requests
           /\ notified' = IF "notified" \in e.o.flags
                          THEN notified \cup {Len(hitl_requests) + 1}
                          ELSE notified
           /\ response' = Respond(e.o)
    /\ UNCHANGED <<settings, TOOL_REGISTRY, ALL_TOOL_SCHEMAS, imported, phase, request, dispatched,
                   ip, attempt, delays, helper_exception, read_timeouts, unit_vars,
                   telegram_webhook_url, scheduler, now, responders, answered, resumed>>

NextValidation ==
    \/ CallPerformHumanValidation
    \/ \E w \in Responders : GetHitlRequest(w)
    \/ \E w \in Responders : UpdateAndResume(w)
    \/ TimeoutExpiredRequests
    \/ Tick

SpecValidation == InitValidation /\ [][NextValidation]_vars

\* ------------------------------------------------------------------------
\* generate_monthly_report: the asyncio.gather of its two fetches
\* ------------------------------------------------------------------------
\* The bodies generate_monthly_report is called with: those its schema accepts.
ReportParams ==
    {p \in Arguments :
        validate_params(p, MergeSchemas(ImportOrder)["generate_monthly_report"].input_schema) = << >>}

\* asyncio.gather(...) returns only when a task of a subset of its tasks
\* returned: the any-one reading.
gather_done_on_first(tasks) == \E i \in GatheredSteps : tasks[i].state = "returned"

\* asyncio.gather(...) returns when every one of its tasks returned.
gather_done(tasks) == \A i \in GatheredSteps : tasks[i].state = "returned"

\* The first try of helper call s puts a request on the wire (a helper whose
\* base URL is unset raises before it sends).
Issued(s) == \A r \in AttemptResults(s) : r.sent

InitGather ==
    /\ settings \in Settings
    /\ TOOL_REGISTRY = ImportAll(ImportOrder)
    /\ ALL_TOOL_SCHEMAS = MergeSchemas(ImportOrder)
    /\ imported = Len(ImportOrder)
    /\ phase = "idle"
    /\ request = NoRequest
    /\ dispatched = FALSE
    /\ ip = 0
    /\ flags = {}
    /\ attempt = 0
    /\ delays = << >>
    /\ helper_exception = NoExc
    /\ read_timeouts = 0
    /\ calls = << >>
    /\ response = NoResponse
    /\ hitl_requests = << >>
    /\ vparams = << >>
    /\ vschema = [required |-> << >>, properties |-> << >>]
    /\ verrors = << >>
    /\ RetryUnused
    /\ telegram_webhook_url = TRUE
    /\ HitlUnused

\* POST /mcp/tools/call for generate_monthly_report, up to the await of
\* asyncio.gather: both call_supabase_rpc coroutines become tasks, and each
\* task runs to its first await, its request sent, before either response is
\* read.
CallReport ==
    /\ phase = "idle"
    /\ \E params \in ReportParams :
          request' = [tool_name |-> "generate_monthly_report", params |-> params]
    /\ dispatched' = TRUE
    /\ phase' = "gather"
    /\ gather' = [tasks |-> [i \in GatheredSteps |-> Task("running", 1)], completed |-> << >>]
    /\ calls' = calls \o
                SelectSeq([i \in 1..Cardinality(GatheredSteps) |->
                              [helper |-> communications_generate_monthly_report_handler[i].helper,
                               op |-> communications_generate_monthly_report_handler[i].op]],
                          LAMBDA c : Issued(communications_generate_monthly_report_handler[1]))
    /\ UNCHANGED <<settings, TOOL_REGISTRY, ALL_TOOL_SCHEMAS, imported, ip, flags, attempt, delays,
                   helper_exception, read_timeouts, response, hitl_requests,
                   vparams, vschema, verrors, retry_config, retry_script, registered, tool_info,
                   write_vars, query_answers, decisions, http_client, hitl_vars>>

\* One try of the call_supabase_rpc of task i ends. The retry wrapper tries
\* again, or the task returns or raises. A task that raises makes the gather
\* raise at once, and the handler re-raises; the gather returns, and the
\* handler goes on to /generate/report, when every task has returned. A task
\* that is still running when the gather has raised runs on with no one
\* awaiting it.
TaskStep(i) ==
    /\ gather.tasks[i].state = "running"
    /\ \E r0 \in AttemptResults(Handler[i]) :
        LET r == HelperResult(Handler[i], r0)
            tries == gather.tasks[i].attempt
        IN  IF r.kind = "fail" /\ retry_with_backoff(BaseRetry, r.exc, tries)
            THEN /\ gather' = [gather EXCEPT !.tasks[i] = Task("running", tries + 1)]
                 /\ UNCHANGED <<phase, ip, flags, attempt, delays, helper_exception,
                                read_timeouts, response>>
            ELSE /\ gather' = [tasks |-> [gather.tasks EXCEPT
                                             ![i] = Task(IF r.kind = "fail" THEN "raised"
                                                         ELSE "returned", tries)],
                               completed |-> Append(gather.completed, i)]
                 /\ IF phase = "gather" /\ r.kind = "fail"
                    THEN Continue(request.tool_name,
                                  OnError(r.exc, Handler, i, flags, request.params), r.exc, 0)
                    ELSE IF phase = "gather" /\ gather_done(gather'.tasks)
                    THEN Continue(request.tool_name,
                                  Run(Handler, Cardinality(GatheredSteps) + 1, flags,
                                      request.params), NoExc, 0)
                    ELSE UNCHANGED <<phase, ip, flags, attempt, delays, helper_exception,
                                     read_timeouts, response>>
    /\ UNCHANGED <<settings, TOOL_REGISTRY, ALL_TOOL_SCHEMAS, imported, request, dispatched, calls,
                   hitl_requests, vparams, vschema, verrors, retry_config, retry_script,
                   registered, tool_info, write_vars, query_answers, decisions, http_client, hitl_vars>>

NextGather == CallReport \/ (\E i \in GatheredSteps : TaskStep(i)) \/ Attempt
SpecGather == InitGather /\ [][NextGather]_vars

\* ------------------------------------------------------------------------
\* utils.http_client: the shared AsyncClient
\* ------------------------------------------------------------------------
MaxClientCalls == 6

\* A call of utils.http_client that ended: its function, what it did, and
\* the client it created, kept, closed or returned (0: none).
ClientCall(op, outcome, client) == [op |-> op, outcome |-> outcome, client |-> client]

\* The startup and shutdown hooks run one after the other; the handlers call
\* get_shared_client while they run.
MayCall == Len(http_client.history) + (IF http_client.closing = 0 THEN 0 ELSE 1) < MaxClientCalls

InitClient ==
    /\ settings \in Settings
    /\ TOOL_REGISTRY = << >>
    /\ ALL_TOOL_SCHEMAS = << >>
    /\ imported = 0
    /\ phase = "client"
    /\ request = NoRequest
    /\ dispatched = FALSE
    /\ ip = 0
    /\ flags = {}
    /\ attempt = 0
    /\ delays = << >>
    /\ helper_exception = NoExc
    /\ read_timeouts = 0
    /\ calls = << >>
    /\ response = NoResponse
    /\ hitl_requests = << >>
    /\ vparams = << >>
    /\ vschema = [required |-> << >>, properties |-> << >>]
    /\ verrors = << >>
    /\ RetryUnused
    /\ telegram_webhook_url = TRUE
    /\ HitlUnused

\* init_shared_client() that makes a new AsyncClient whatever _shared_client is.
init_shared_client_replaces ==
    /\ phase = "client" /\ MayCall /\ http_client.closing = 0
    /\ LET c == http_client.created + 1
       IN  http_client' = [http_client EXCEPT
                              !.shared_client = c, !.created = c, !.open = @ \cup {c},
                              !.history = Append(@, ClientCall("init", "created", c))]

\* init_shared_client(): returns at once when _shared_client is set, and
\* otherwise makes the AsyncClient and stores it.
init_shared_client ==
    /\ phase = "client" /\ MayCall /\ http_client.closing = 0
    /\ IF http_client.shared_client # 0
       THEN http_client' = [http_client EXCEPT
                               !.history = Append(@, ClientCall("init", "kept",
                                                                http_client.shared_client))]
       ELSE LET c == http_client.created + 1
            IN  http_client' = [http_client EXCEPT
                                   !.shared_client = c, !.created = c, !.open = @ \cup {c},
                                   !.history = Append(@, ClientCall("init", "created", c))]

\* close_shared_client(), up to its await: returns at once when
\* _shared_client is None, and otherwise awaits _shared_client.aclose().
close_shared_client ==
    /\ phase = "client" /\ MayCall /\ http_client.closing = 0
    /\ IF http_client.shared_client = 0
       THEN http_client' = [http_client EXCEPT
                               !.history = Append(@, ClientCall("close", "nothing", 0))]
       ELSE http_client' = [http_client EXCEPT !.closing = http_client.shared_client]

\* aclose() returns: the client is closed, and close_shared_client sets
\* _shared_client to None.
aclose ==
    /\ phase = "client" /\ http_client.closing # 0
    /\ http_client' = [http_client EXCEPT
                          !.open = @ \ {http_client.closing}, !.shared_client = 0, !.closing = 0,
                          !.history = Append(@, ClientCall("close", "closed",
                                                           http_client.closing))]

\* get_shared_client(): raises RuntimeError when _shared_client is None, and
\* otherwise returns it.
get_shared_client ==
    /\ phase = "client" /\ MayCall
    /\ http_client' = [http_client EXCEPT
                          !.history = Append(@, IF http_client.shared_client = 0
                                                THEN ClientCall("get", "RuntimeError", 0)
                                                ELSE ClientCall("get", "returned",
                                                                http_client.shared_client))]

client_frame ==
    UNCHANGED <<settings, TOOL_REGISTRY, ALL_TOOL_SCHEMAS, imported, phase, request, dispatched,
                ip, flags, attempt, delays, helper_exception, read_timeouts, calls, response,
                hitl_requests, vparams, vschema, verrors, retry_config, retry_script,
                registered, tool_info, write_vars, query_answers, decisions, gather, hitl_vars>>

NextClient ==
    \/ init_shared_client /\ client_frame
    \/ close_shared_client /\ client_frame
    \/ aclose /\ client_frame
    \/ get_shared_client /\ client_frame
SpecClient == InitClient /\ [][NextClient]_vars

\* ------------------------------------------------------------------------
\* Properties
\* ------------------------------------------------------------------------
\* The category under which the requested tool is registered.
Category == TOOL_REGISTRY[request.tool_name].category

\* The handler ended at an outbound call (not one it makes on its own account).
EndedAtCall ==
    /\ phase = "done"
    /\ dispatched
    /\ ip \in 1..Len(Handler)
    /\ Handler[ip].helper \in {"rpc", "db", "doc", "storage", "email"}

\* C1: with HITL enabled, a create_and_send_facture call whose montant is
\* above the threshold issues no request to the mutation service, and when
\* it succeeds its result is pending_validation, with the pending record
\* persisted and the notification sent.
C1_HitlGateBeforeMutation ==
    (/\ phase \in {"running", "done"}
     /\ settings.hitl_enabled
     /\ request.tool_name = "create_and_send_facture"
     /\ request.params = << Arg("qualification_id", StrV("q1")), Arg("montant", IntV(2000)) >>)
    => /\ \A i \in 1..Len(calls) : calls[i].helper # "db"
       /\ (phase = "done" /\ response.status = 200)
            => /\ response.result = "pending_validation"
               /\ {"persisted", "notified"} \subseteq flags
               /\ hitl_requests # << >>

\* C2: when the handler of a registered tool reaches a worker helper whose
\* base URL is unset, the response is a 503 service_unavailable that names
\* the tool and its category, with the message of the missing worker: reads
\* only for the database worker, reads and writes for the other three.
C2_UnsetUrlIs503 ==
    (/\ EndedAtCall
     /\ Handler[ip].helper # "rpc"
     /\ ServiceOf(Handler[ip].helper) \in settings.unset)
    => /\ response.status = 503
       /\ response.detail.error = "service_unavailable"
       /\ response.detail.tool = request.tool_name
       /\ response.detail.category = Category
       /\ response.detail.message =
            (CASE Handler[ip].helper = "db" -> MsgDatabase
               [] Handler[ip].helper = "doc" -> MsgDocument
               [] Handler[ip].helper = "storage" -> MsgStorage
               [] Handler[ip].helper = "email" -> MsgEmail)

\* C3: when every attempt of a downstream call of the handler of a
\* registered tool ends in a read timeout and the handler lets the error
\* out, the response is a 504 gateway_timeout naming the tool and its
\* category, whichever the tool.
C3_TimeoutIs504 ==
    (/\ EndedAtCall
     /\ helper_exception.cls = "ReadTimeout"
     /\ attempt = max_attempts
     /\ read_timeouts = max_attempts)
    => /\ response.status = 504
       /\ response.detail.error = "gateway_timeout"
       /\ response.detail.tool = request.tool_name
       /\ response.detail.category = Category

\* C4: when a downstream answers a call of the handler with an error status
\* (a 4xx at once, a 5xx on the last attempt), the response carries the same
\* status, error worker_error, the tool, its category and the downstream
\* body as worker_detail, whatever the body.
C4_DownstreamErrorPassesThrough ==
    (/\ EndedAtCall
     /\ helper_exception.cls = "HTTPStatusError")
    => /\ response.status = helper_exception.status
       /\ response.detail.error = "worker_error"
       /\ response.detail.tool = request.tool_name
       /\ response.detail.category = Category
       /\ response.detail.worker_detail =
            (IF helper_exception.body = "text" THEN "message:text" ELSE helper_exception.body)

\* C5: every error response to a call of a registered tool names the tool
\* and its category.
C5_ErrorsNameToolAndCategory ==
    (/\ phase = "done"
     /\ request.tool_name \in DOMAIN TOOL_REGISTRY
     /\ response.status >= 400)
    => /\ response.detail.tool = request.tool_name
       /\ response.detail.category = Category

\* C6: a call that reaches dispatch_tool with a name absent from the
\* registry ends in the 404 made from the ValueError, with no handler
\* invoked and no outbound call issued.
C6_UnknownToolIsNotDispatched ==
    (/\ phase \in {"running", "done"}
     /\ request.tool_name # ""
     /\ request.tool_name \notin DOMAIN TOOL_REGISTRY
     /\ (request.tool_name \in DOMAIN ALL_TOOL_SCHEMAS
           => validate_params(request.params,
                              ALL_TOOL_SCHEMAS[request.tool_name].input_schema) = << >>))
    => /\ phase = "done"
       /\ response.status = 404
       /\ response.detail.form = "str"
       /\ ~dispatched
       /\ calls = << >>

C6_Witness ==
    /\ phase = "done"
    /\ request.tool_name = "drop_database"
    /\ request.params # << >>
    /\ response.status = 404
    /\ ~dispatched

\* C7: a call whose params give a non-empty list of validation errors
\* against the schema of the tool is not dispatched, issues no outbound call
\* and is answered 422 with that list.
C7_InvalidParamsAreNotDispatched ==
    (/\ phase \in {"running", "done"}
     /\ request.tool_name \in DOMAIN ALL_TOOL_SCHEMAS
     /\ validate_params(request.params,
                        ALL_TOOL_SCHEMAS[request.tool_name].input_schema) # << >>)
    => /\ phase = "done"
       /\ ~dispatched
       /\ calls = << >>
       /\ response.status = 422
       /\ response.detail.errors # << >>
       /\ response.detail.errors =
            validate_params(request.params, ALL_TOOL_SCHEMAS[request.tool_name].input_schema)

C7_Witness ==
    /\ phase = "done"
    /\ request.tool_name = "search_entreprise_with_stats"
    /\ request.params = << >>
    /\ response.status = 422
    /\ \E i \in 1..Len(response.detail.errors) :
          /\ response.detail.errors[i].kind = "missing"
          /\ response.detail.errors[i].field = "search_term"

\* C8: whenever a required field is absent from params, the result of
\* validate_params is a non-empty list with an error that names the field.
C8_MissingRequiredIsReported ==
    phase = "validated"
    => \A i \in 1..Len(vschema.required) :
          ~Has(vparams, vschema.required[i])
          => /\ verrors # << >>
             /\ \E j \in 1..Len(verrors) : verrors[j].field = vschema.required[i]

C8_Witness ==
    /\ phase = "validated"
    /\ vparams # << >>
    /\ \E i \in 1..Len(vschema.required) :
          /\ ~Has(vparams, vschema.required[i])
          /\ \E j \in 1..Len(verrors) :
                verrors[j].kind = "missing" /\ verrors[j].field = vschema.required[i]

\* C9: when every required field is present, every provided field with a
\* declared type holds a value of that JSON type and every provided field
\* with an enum holds one of its members, validate_params reports no error.
C9_ValidParamsPass ==
    LET props == vschema.properties
        Matches(value, type) ==
            CASE type = "string" -> value.t = "str"
              [] type = "number" -> value.t \in {"int", "float"}
              [] type = "integer" -> value.t = "int"
              [] type = "boolean" -> value.t = "bool"
              [] type = "object" -> value.t = "dict"
              [] type = "array" -> value.t = "list"
              [] OTHER -> TRUE
    IN  (/\ phase = "validated"
         /\ \A i \in 1..Len(vschema.required) : Has(vparams, vschema.required[i])
         /\ \A i \in 1..Len(vparams) :
               vparams[i].k \in DOMAIN props
               => /\ Matches(vparams[i].v, props[vparams[i].k].type)
                  /\ props[vparams[i].k].enum # {} => vparams[i].v \in props[vparams[i].k].enum)
        => verrors = << >>

C9_Witness ==
    /\ phase = "validated"
    /\ verrors = << >>
    /\ Len(vschema.required) = 2
    /\ Len(vparams) = 2
    /\ "limit" \in DOMAIN vschema.properties
    /\ vschema.properties["limit"].type = "number"
    /\ vschema.properties["limit"].enum # {}
    /\ Get(vparams, "limit") = IntV(1)
    /\ Get(vparams, "statut").t = "str"

\* C10: every provided, non-null field whose value is not of the JSON type
\* its schema entry declares is reported with a type error; a boolean is not
\* an integer or a number.
C10_TypeMismatchIsReported ==
    LET props == vschema.properties
        Matches(value, type) ==
            CASE type = "string" -> value.t = "str"
              [] type = "number" -> value.t \in {"int", "float"}
              [] type = "integer" -> value.t = "int"
              [] type = "boolean" -> value.t = "bool"
              [] type = "object" -> value.t = "dict"
              [] type = "array" -> value.t = "list"
              [] OTHER -> TRUE
    IN  phase = "validated"
        => \A i \in 1..Len(vparams) :
              (/\ vparams[i].k \in DOMAIN props
               /\ vparams[i].v # NullV
               /\ ~Matches(vparams[i].v, props[vparams[i].k].type))
              => \E j \in 1..Len(verrors) :
                    verrors[j].kind = "type" /\ verrors[j].field = vparams[i].k


\* C11: every type or enum error names a field that is present in params,
\* declared in the schema's properties and not null; an undeclared field and
\* a null value add no error.
C11_OnlyDeclaredNonNullFieldsAreChecked ==
    phase = "validated"
    => \A j \in 1..Len(verrors) :
          verrors[j].kind \in {"type", "enum"}
          => /\ Has(vparams, verrors[j].field)
             /\ verrors[j].field \in DOMAIN vschema.properties
             /\ Get(vparams, verrors[j].field) # NullV

C11_Witness ==
    /\ phase = "validated"
    /\ verrors = << >>
    /\ "limit" \in DOMAIN vschema.properties
    /\ vschema.properties["limit"].type = "integer"
    /\ vschema.properties["limit"].enum # {}
    /\ Has(vparams, "limit")
    /\ Get(vparams, "limit") = NullV
    /\ Has(vparams, "notes")
    /\ Get(vparams, "notes") = DictV


\* What the retry wrapper is told to try again: timeouts, network errors and
\* 5xx answers.
Retryable(e) ==
    \/ e.cls \in {"ConnectError", "ConnectTimeout", "ReadTimeout", "ReadError"}
    \/ e.cls = "HTTPStatusError" /\ e.status >= 500

Terminated == phase \in {"returned", "raised"}

\* C12: with maxAttempts = 3, a call that fails with HTTP 500, then with
\* HTTP 500, then succeeds returns the success after exactly three attempts,
\* having slept twice, for delays that do not decrease and do not exceed
\* maxDelay.
C12_TwoFailuresThenSuccess ==
    ( /\ Terminated
      /\ retry_config.max_attempts = 3
      /\ retry_script[1].exc.cls = "HTTPStatusError" /\ retry_script[1].exc.status = 500
      /\ retry_script[2].exc.cls = "HTTPStatusError" /\ retry_script[2].exc.status = 500
      /\ retry_script[3].kind = "ok" )
    => /\ phase = "returned"
       /\ attempt = 3
       /\ helper_exception = NoExc
       /\ Len(delays) = 2
       /\ delays[1] <= delays[2]
       /\ \A k \in 1..2 : delays[k] <= retry_config.max_delay

C12_Witness ==
    /\ phase = "returned"
    /\ retry_config = BaseRetry
    /\ retry_script[1].exc.status = 500
    /\ retry_script[2].exc.status = 500
    /\ retry_script[3].kind = "ok"
    /\ attempt = 3
    /\ delays = <<1, 2>>


\* C13: a failure that is not retryable (a 4xx answer, the RuntimeError of an
\* unset URL, the 422 of unvalidated data, any other exception) is raised
\* after exactly one attempt and no sleep, and the caller gets the exception
\* the wrapped function raised.
C13_NonRetryableIsRaisedAtOnce ==
    (retry_script[1].kind = "fail" /\ ~Retryable(retry_script[1].exc))
    => /\ attempt = 1
       /\ delays = << >>
       /\ Terminated => (phase = "raised" /\ helper_exception = retry_script[1].exc)

C13_Witness ==
    /\ phase = "raised"
    /\ retry_config.max_attempts = 3
    /\ attempt = 1
    /\ delays = << >>
    /\ retry_script[1].exc = Exc("HTTPStatusError", 400, "text", "")
    /\ helper_exception = Exc("HTTPStatusError", 400, "text", "")


\* Every call the wrapped function can get fails with a retryable error.
AllAttemptsRetryable ==
    \A k \in 1..retry_config.max_attempts :
        retry_script[k].kind = "fail" /\ Retryable(retry_script[k].exc)

\* C14: the wrapper terminates, after at most maxAttempts attempts; when
\* every attempt fails with a retryable error it makes exactly maxAttempts
\* attempts and then raises the exception of the last attempt, unchanged.
C14_TerminatesWithinMaxAttempts ==
    /\ <>Terminated
    /\ [](attempt <= retry_config.max_attempts)
    /\ []((Terminated /\ AllAttemptsRetryable)
          => /\ phase = "raised"
             /\ attempt = retry_config.max_attempts
             /\ helper_exception = retry_script[retry_config.max_attempts].exc)

C14_Witness ==
    /\ phase = "raised"
    /\ retry_config = BaseRetry
    /\ AllAttemptsRetryable
    /\ attempt = 3
    /\ retry_script[2].exc.cls = "ReadTimeout"
    /\ helper_exception = Exc("HTTPStatusError", 500, "text", "")


\* C15: the sleep after failed attempt k is min(baseDelay * 2^(k-1),
\* maxDelay); a call of n attempts has slept exactly n-1 times, so there is
\* no sleep after the final attempt.
C15_BackoffSchedule ==
    /\ Len(delays) = attempt - 1
    /\ \A k \in 1..Len(delays) :
          delays[k] = IF retry_config.base_delay * (2 ^ (k - 1)) < retry_config.max_delay
                      THEN retry_config.base_delay * (2 ^ (k - 1))
                      ELSE retry_config.max_delay

C15_Witness ==
    /\ phase = "raised"
    /\ retry_config = RetryConfig(4, 1, 3)
    /\ attempt = 4
    /\ delays = <<1, 2, 3>>


\* C16: a mark_facture_paid call whose request to the database worker ends
\* in a refused connection, the earlier attempts having failed too, made
\* exactly 3 attempts with sleeps of 1 s and 2 s between them, and its
\* caller gets a 503 service_unavailable that names the tool and the
\* category write.
C16_RefusedConnectionIs503AfterThreeAttempts ==
    ( /\ phase = "done"
      /\ request.tool_name = "mark_facture_paid"
      /\ dispatched
      /\ helper_exception.cls = "ConnectError" )
    => /\ attempt = 3
       /\ delays = <<1, 2>>
       /\ calls = << [helper |-> "db", op |-> "PUT /facture/{id} payment_status=paid"] >>
       /\ response.status = 503
       /\ response.detail.error = "service_unavailable"
       /\ response.detail.tool = "mark_facture_paid"
       /\ response.detail.category = "write"

C16_Witness ==
    /\ phase = "done"
    /\ request.tool_name = "mark_facture_paid"
    /\ helper_exception.cls = "ConnectError"
    /\ attempt = 3
    /\ response.status = 503
    /\ response.detail.message = MsgUnreachable


\* The row of request i is in the table with this status.
RowIs(i, status) == i <= Len(hitl_requests) /\ hitl_requests[i].status = status

ResumedFor(i) == {j \in 1..Len(resumed) : resumed[j].request_id = i}

\* C18: however two process_validation_response calls for one request, or
\* one call and the expiry sweep, interleave, the recorded tool is dispatched
\* at most once, and only for a request that left pending as approved or
\* modified.
C18_DispatchedAtMostOnce ==
    \A i \in 1..Len(hitl_requests) :
        /\ Cardinality(ResumedFor(i)) <= 1
        /\ ResumedFor(i) # {} => hitl_requests[i].status \in {"approved", "modified"}


\* A process_validation_response call that found request i pending ends with
\* its answer, the row still pending when it updates the status.
Responds(i) ==
    /\ answered' # answered
    /\ answered'.request_id = i
    /\ answered'.seen = "pending"
    /\ answered'.status_code = 200
    /\ RowIs(i, "pending")

\* C19: a workflow is resumed only on approval. For a pending request an
\* approve or modify response marks the record approved or modified and
\* dispatches the recorded tool once, with the params a human supplied or else
\* the recorded ones; a reject or any other action marks it rejected and
\* dispatches nothing. Nothing else dispatches a recorded tool.
C19_ResumedOnlyOnApproval ==
    [][/\ \A i \in 1..Len(hitl_requests) :
            Responds(i) =>
                IF answered'.action \in {"approve", "modify"}
                THEN /\ hitl_requests'[i].status =
                            (IF answered'.action = "approve" THEN "approved" ELSE "modified")
                     /\ resumed' = Append(resumed,
                            [request_id |-> i,
                             tool_name |-> hitl_requests[i].tool_name,
                             params |-> IF answered'.modified_params = Some(ModifiedParams)
                                        THEN ModifiedParams
                                        ELSE OriginalParams])
                ELSE /\ hitl_requests'[i].status = "rejected"
                     /\ resumed' = resumed
       /\ resumed' # resumed
            => /\ answered'.resumed
               /\ answered'.action \in {"approve", "modify"}
               /\ answered'.seen = "pending"]_vars

C19_Witness ==
    /\ RowIs(1, "modified")
    /\ answered.action = "modify"
    /\ answered.status_code = 200
    /\ answered.resumed
    /\ resumed = << [request_id |-> 1, tool_name |-> "create_and_send_facture",
                     params |-> ModifiedParams] >>


\* C20: every record persisted as pending leaves pending in the end: with no
\* response it is marked timed_out by the periodic sweep once its expiry has
\* passed, the sweep running in every configuration in which pending records
\* can be created.
C20_PendingIsEventuallyTimedOut ==
    \A i \in 1..MaxHitlRequests :
        RowIs(i, "pending")
            ~> (RowIs(i, "approved") \/ RowIs(i, "rejected") \/ RowIs(i, "modified")
                \/ RowIs(i, "timed_out"))


Call(helper, op) == [helper |-> helper, op |-> op]

\* The outbound calls of send_facture_email in their declared order, for the
\* params of the request.
SendFactureEmailCalls ==
    << Call("rpc", "get_facture_by_id") >>
    \o (IF Truthy(Get(request.params, "recipient_email"))
        THEN << >>
        ELSE << Call("rpc", "get_entreprise_by_id") >>)
    \o << Call("doc", "/generate/facture"), Call("storage", "/upload"), Call("email", "/send"),
          Call("db", "PUT /facture/{id} pdf_status=sent") >>

\* C21: in a send_facture_email invocation the outbound calls are issued in
\* the declared order: the calls issued so far are a prefix of fetch invoice,
\* fetch company (when no recipient was given), generate PDF, upload, send
\* email, update invoice; the call the handler awaits is the next of them,
\* and the invocation succeeds only with all of them issued. The handler of
\* tools/workflows.py has the same steps.
C21_SendFactureEmailCallsInOrder ==
    /\ workflows_send_facture_email_handler = communications_send_facture_email_handler
    /\ (request.tool_name = "send_facture_email" /\ dispatched)
       => /\ Len(calls) <= Len(SendFactureEmailCalls)
          /\ calls = SubSeq(SendFactureEmailCalls, 1, Len(calls))
          /\ phase = "running"
               => \/ /\ Len(calls) < Len(SendFactureEmailCalls)
                     /\ Call(Handler[ip].helper, Handler[ip].op)
                            = SendFactureEmailCalls[Len(calls) + 1]
                  \/ /\ Len(calls) >= 1
                     /\ attempt > 1
                     /\ Call(Handler[ip].helper, Handler[ip].op) = calls[Len(calls)]
          /\ (phase = "done" /\ response.status = 200) => calls = SendFactureEmailCalls

C21_Witness ==
    /\ phase = "done"
    /\ request.tool_name = "send_facture_email"
    /\ ~Has(request.params, "recipient_email")
    /\ response.result = "sent"
    /\ Len(calls) = 6
    /\ calls[2] = Call("rpc", "get_entreprise_by_id")
    /\ calls[5] = Call("email", "/send")


\* A workflow tool is being run, or has just ended.
WorkflowCall ==
    /\ phase \in {"running", "done"}
    /\ dispatched
    /\ Category = "workflow"

\* The outbound calls issued are calls of the steps up to the one the handler
\* stands at, and none of them deletes what an earlier step made.
NoLaterCallAndNoUndo ==
    \A k \in 1..Len(calls) :
        /\ \E j \in 1..ip : Call(Handler[j].helper, Handler[j].op) = calls[k]
        /\ calls[k].op # "DELETE /facture/{id}"

FirstRegistration(name) ==
    registered[CHOOSE k \in 1..Len(registered) :
                  /\ registered[k].name = name
                  /\ \A j \in 1..(k - 1) : registered[j].name # name]

\* C23: the registry is append-only and the first writer wins: after any
\* sequence of register_tool calls it holds exactly the names registered, each
\* with the category, description and handler of the first call made for it,
\* and get_tool_info of a registered name returned that category and
\* description.
C23_FirstRegistrationWins ==
    /\ DOMAIN TOOL_REGISTRY = {registered[k].name : k \in 1..Len(registered)}
    /\ \A n \in DOMAIN TOOL_REGISTRY :
          /\ TOOL_REGISTRY[n].name = n
          /\ TOOL_REGISTRY[n].category = FirstRegistration(n).category
          /\ TOOL_REGISTRY[n].description_short = FirstRegistration(n).description_short
          /\ TOOL_REGISTRY[n].handler = FirstRegistration(n).handler
    /\ tool_info.info.found
          => /\ tool_info.tool_name \in DOMAIN TOOL_REGISTRY
             /\ tool_info.info.name = tool_info.tool_name
             /\ tool_info.info.category = FirstRegistration(tool_info.tool_name).category
             /\ tool_info.info.description
                    = FirstRegistration(tool_info.tool_name).description_short

C23_Witness ==
    /\ Len(registered) = 3
    /\ registered[1].name = "generate_facture_pdf"
    /\ registered[2].name = "generate_facture_pdf"
    /\ registered[1].category = "workflow"
    /\ registered[2].category = "read"
    /\ registered[1].description_short # registered[2].description_short
    /\ registered[1].handler = "factures"
    /\ registered[2].handler = "workflows"
    /\ tool_info.tool_name = "generate_facture_pdf"
    /\ tool_info.info.category = "workflow"
    /\ tool_info.info.description = registered[1].description_short


\* C24: once the domain modules are imported and the schemas aggregated, the
\* names in the registry are the names that have a schema: every registered
\* tool has a schema and every schema has a registered handler.
C24_RegisteredNamesAreSchemaNames ==
    phase \in {"idle", "running", "done"}
    => DOMAIN TOOL_REGISTRY = DOMAIN ALL_TOOL_SCHEMAS

C24_Witness ==
    /\ phase = "idle"
    /\ imported = Len(ImportOrder)
    /\ "send_plaquette_to_entreprise" \in DOMAIN TOOL_REGISTRY
    /\ "send_plaquette_to_entreprise" \in DOMAIN ALL_TOOL_SCHEMAS
    /\ Cardinality(DOMAIN ALL_TOOL_SCHEMAS) = Cardinality(DOMAIN TOOL_REGISTRY)

\* The registered tools of a category.
ToolsOf(category) == {n \in DOMAIN TOOL_REGISTRY : TOOL_REGISTRY[n].category = category}

\* C25: after all domain modules have been imported in the startup order the
\* registry holds exactly 21 tools: 11 read, 6 write and 4 workflow.
C25_TwentyOneTools ==
    imported = Len(ImportOrder)
    => /\ Cardinality(DOMAIN TOOL_REGISTRY) = 21
       /\ Cardinality(ToolsOf("read")) = 11
       /\ Cardinality(ToolsOf("write")) = 6
       /\ Cardinality(ToolsOf("workflow")) = 4


\* The mutation service answered, and its body has an id that is not null.
AnsweredWithId == worker_data.some /\ Get(worker_data.v, "id").t # "NoneType"

\* C26: upsert_entreprise called with only {nom} issues one call to the
\* mutation service, whose payload is {nom, email: null, telephone: null,
\* adresse: null, notes: null}; when the service answers with an entity that
\* has an id, the handler returns that entity with validated: true added.
C26_UpsertEntreprisePayloadAndResult ==
    (/\ phase = "written"
     /\ request.tool_name = "upsert_entreprise"
     /\ Keys(request.params) = {"nom"})
    => /\ calls = << [helper |-> "db", op |-> "POST /entreprise/upsert"] >>
       /\ payload = << Arg("nom", Get(request.params, "nom")), Arg("email", NullV),
                       Arg("telephone", NullV), Arg("adresse", NullV), Arg("notes", NullV) >>
       /\ AnsweredWithId
          => /\ handler_result.kind = "return"
             /\ Keys(handler_result.value) = Keys(worker_data.v) \cup {"validated"}
             /\ Get(handler_result.value, "validated") = BoolV(TRUE)
             /\ \A k \in Keys(worker_data.v) \ {"validated"} :
                   Get(handler_result.value, k) = Get(worker_data.v, k)

C26_Witness ==
    /\ phase = "written"
    /\ request = [tool_name |-> "upsert_entreprise", params |-> << Arg("nom", StrV("Acme")) >>]
    /\ Len(calls) = 1
    /\ payload[2] = Arg("email", NullV)
    /\ worker_data = Some(<< Arg("id", StrV("e1")), Arg("nom", StrV("Acme")) >>)
    /\ handler_result.value = << Arg("id", StrV("e1")), Arg("nom", StrV("Acme")),
                                 Arg("validated", BoolV(TRUE)) >>


\* The handler returned the body of the mutation service as it is.
ReturnedData == handler_result.kind = "return" /\ handler_result.value = worker_data.v

\* The handler raised HTTPException(422).
ValidationFailure ==
    /\ handler_result.kind = "raise"
    /\ handler_result.exc.cls = "HTTPException"
    /\ handler_result.exc.status = 422

\* C27 as stated: every write tool succeeds only if the body of the mutation
\* service has the identifier of the entity, and a body without it is a 422.
C27_SuccessOnlyWithIdentifier ==
    (phase = "written" /\ worker_data.some)
    => /\ handler_result.kind = "return" => AnsweredWithId
       /\ ~AnsweredWithId => ValidationFailure

\* C27: upsert_entreprise succeeds only if the body has an id that is not
\* null, and is a 422 otherwise; upsert_qualification, create_facture,
\* update_facture and mark_facture_paid succeed only if the body has a true
\* validated, and are a 422 otherwise, with or without an identifier;
\* delete_facture returns whatever body the service answers with.
C27_SuccessOnlyWithMarker ==
    (phase = "written" /\ worker_data.some)
    => CASE request.tool_name = "upsert_entreprise" ->
                IF AnsweredWithId
                THEN handler_result.kind = "return"
                ELSE ValidationFailure
         [] request.tool_name = "delete_facture" -> ReturnedData
         [] OTHER ->
                IF Truthy(Get(worker_data.v, "validated"))
                THEN ReturnedData
                ELSE ValidationFailure

C27_Witness ==
    /\ phase = "written"
    /\ request.tool_name = "create_facture"
    /\ worker_data = Some(<< Arg("validated", BoolV(TRUE)) >>)
    /\ ~AnsweredWithId
    /\ ReturnedData


\* The handler ended because the outbound helper of step ip raised, and the
\* base URL of that helper's service is unset.
EndedAtUnsetService ==
    /\ phase = "done"
    /\ dispatched
    /\ helper_exception # NoExc
    /\ Handler[ip].helper \in {"rpc", "db", "doc", "storage", "email"}
    /\ ServiceOf(Handler[ip].helper) \in settings.unset

\* The exception is the configuration error of a helper, which no failure of
\* the network raises.
ConfigurationError(e) ==
    /\ e.cls = "RuntimeError"
    /\ e.msg \in {NotConfigured(sv) : sv \in {"database", "document", "storage", "email"}}
                 \cup {"SUPABASE_URL not configured"}

\* C28: each of the five outbound helpers, when its base URL is unset, fails
\* with a configuration error and issues no HTTP request; the error is none
\* of the exceptions a network failure raises.
C28_UnsetUrlIsConfigurationError ==
    EndedAtUnsetService
    => /\ ConfigurationError(helper_exception)
       /\ calls = << >> \/ calls[Len(calls)] # Call(Handler[ip].helper, Handler[ip].op)

\* The four worker helpers do so.
C28_WorkersOnly ==
    (EndedAtUnsetService /\ Handler[ip].helper # "rpc")
    => /\ ConfigurationError(helper_exception)
       /\ calls = << >> \/ calls[Len(calls)] # Call(Handler[ip].helper, Handler[ip].op)


\* Request 1 has been approved.
Approved == hitl_requests[1].status = "approved"

\* The steps by which a handler asks for human validation.
ValidationSteps ==
    {"get_qualification_by_id", "count_factures_by_entreprise",
     "execute_sql INSERT INTO hitl_requests", "send_message",
     "execute_sql UPDATE hitl_requests SET telegram_message_id"}

\* The resumed dispatch asks nobody: it issues and awaits none of the calls of
\* the approval gate, no record is added to the store, the first call it makes
\* is the creation of the invoice, and it does not end in pending_validation.
ResumedWithoutValidation ==
    /\ Len(hitl_requests) = 1
    /\ \A k \in 1..Len(calls) : calls[k].op \notin ValidationSteps
    /\ phase = "running" => Handler[ip].op \notin ValidationSteps
    /\ (phase = "running" /\ calls = << >>) => Handler[ip].op = "POST /facture/create"
    /\ calls # << >> => calls[1] = Call("db", "POST /facture/create")
    /\ response.result # "pending_validation"

\* The resumed workflow has ended, completed or failed.
ResumedEnded ==
    /\ phase = "stored"
    /\ answered.resumed
    /\ response.status = 200 \/ response.status >= 400
    /\ response.result # "pending_validation"

QueryReads == {"get_qualification_by_id", "count_factures_by_entreprise"}

NewClientCheckMade ==
    /\ phase = "needs"
    /\ settings.hitl_enabled
    /\ request.tool_name = "create_and_send_facture"
    /\ Truthy(Get(request.params, "qualification_id"))
    /\ Get(request.params, "montant").t \in {"int", "float", "bool"}
    /\ NumOf(Get(request.params, "montant")) <= hitl_facture_threshold

\* One of the two queries of the check raises: the first one, or the second
\* one after the first returned a qualification with its company.
QueryRaises ==
    \/ "supabase" \in settings.unset
    \/ query_answers["get_qualification_by_id"] = "fail"
    \/ /\ query_answers["get_qualification_by_id"] = "qualification"
       /\ query_answers["count_factures_by_entreprise"] = "fail"

\* C31: with HITL enabled, for create_and_send_facture with a qualification_id
\* and an amount not above the threshold, an exception of either query of the
\* new-client check makes needs_hitl_validation return True.
C31_NewClientCheckFailsClosed ==
    (NewClientCheckMade /\ QueryRaises)
    => \A i \in 1..Len(decisions) : decisions[i] = "True"

C31_Witness ==
    /\ NewClientCheckMade
    /\ settings.unset = {}
    /\ query_answers["get_qualification_by_id"] = "qualification"
    /\ query_answers["count_factures_by_entreprise"] = "fail"
    /\ Len(decisions) >= 1
    /\ decisions[1] = "True"
    /\ Len(calls) >= 2
    /\ calls[2] = Call("rpc", "count_factures_by_entreprise")


\* The index in calls of the request op, or 0.
CallIndex(op) ==
    IF \E k \in 1..Len(calls) : calls[k].op = op
    THEN CHOOSE k \in 1..Len(calls) : calls[k].op = op
    ELSE 0

\* perform_human_validation persisted its record and then failed to send the
\* notification.
Orphaned ==
    /\ response # NoResponse
    /\ Len(hitl_requests) = 1
    /\ query_answers["send_message"] = "fail"

ReportWithoutRecipient ==
    /\ request.tool_name = "generate_monthly_report"
    /\ Truthy(Get(request.params, "send_email"))
    /\ ~Truthy(Get(request.params, "recipient_email"))

\* C33: generate_monthly_report with send_email true and no recipient_email
\* is rejected as an input-shape error before any outbound call: the handler
\* awaits no call, and when the error is returned no statistics fetch, report
\* generation or upload has been issued.
C33_MissingRecipientRejectedBeforeAnyCall ==
    ReportWithoutRecipient
    => /\ phase # "running"
       /\ calls = << >>
       /\ phase = "done" => response.status \in {400, 422}


\* The calls of generate_monthly_report that follow its two fetches.
AfterFetches == {k \in 1..Len(calls) : calls[k].op \in {"/generate/report", "/upload", "/send"}}

\* C34: generate_monthly_report runs its two fetches concurrently (both
\* tasks exist, and both requests are on the wire, before either has ended),
\* issues the report generation only after both fetches have returned, in
\* whichever order they ended, and issues no generation, upload or email call
\* when either fetch failed.
C34_GenerationAfterBothFetches ==
    /\ phase = "gather" =>
          /\ \A i \in GatheredSteps : gather.tasks[i].state # "none"
          /\ \E i \in GatheredSteps : gather.tasks[i].state = "running"
          /\ "supabase" \notin settings.unset =>
                calls = << Call("rpc", "get_revenue_stats"), Call("rpc", "get_unpaid_factures") >>
    /\ (phase = "running" \/ AfterFetches # {}) =>
          \A i \in GatheredSteps : gather.tasks[i].state = "returned"
    /\ (\E i \in GatheredSteps : gather.tasks[i].state = "raised") =>
          AfterFetches = {} /\ phase # "running"

\* The second fetch returned before the first, and the report was generated,
\* uploaded and sent.
C34_Witness ==
    /\ gather.completed = << 2, 1 >>
    /\ response.status = 200
    /\ \E k \in AfterFetches : calls[k] = Call("doc", "/generate/report")
    /\ \E k \in AfterFetches : calls[k] = Call("email", "/send")


\* An init_shared_client is among the first k calls that ended, with no
\* close_shared_client after it.
Initialized(k) ==
    \E i \in 1..k :
        /\ http_client.history[i].op = "init"
        /\ \A j \in (i + 1)..k : http_client.history[j].op # "close"

\* C35: over any sequence of init_shared_client, close_shared_client and
\* get_shared_client calls at most one shared client exists at a time: an
\* init on an initialized client keeps the existing instance, a close on an
\* uninitialized client does nothing, and a get returns the client exactly
\* when an init has happened with no later close, and raises RuntimeError
\* otherwise.
C35_OneSharedClient ==
    /\ Cardinality(http_client.open) <= 1
    /\ http_client.shared_client # 0 => http_client.open = {http_client.shared_client}
    /\ \A k \in 1..Len(http_client.history) :
          LET c == http_client.history[k]
          IN  /\ (c.op = "init" /\ Initialized(k - 1)) =>
                    /\ c.outcome = "kept"
                    /\ c.client = http_client.history[k - 1].client
                    /\ c.client # 0
              /\ (c.op = "init" /\ ~Initialized(k - 1)) => c.outcome = "created"
              /\ (c.op = "close" /\ ~Initialized(k - 1)) => c.outcome = "nothing"
              /\ (c.op = "close" /\ Initialized(k - 1)) =>
                    c.outcome = "closed" /\ c.client = http_client.history[k - 1].client
              /\ c.op = "get" =>
                    IF Initialized(k - 1)
                    THEN c.outcome = "returned" /\ c.client = http_client.history[k - 1].client
                    ELSE c.outcome = "RuntimeError"

\* A close did nothing, a get raised, an init created the client, a second
\* init kept it, a get returned it, and a close closed it.
C35_Witness ==
    /\ Len(http_client.history) = MaxClientCalls
    /\ [k \in 1..MaxClientCalls |-> http_client.history[k].outcome] =
          << "nothing", "RuntimeError", "created", "kept", "returned", "closed" >>


\* The tool call asks for the created invoice to be marked as paid.
MarkAsPaidRequested ==
    /\ request.tool_name = "create_and_send_facture"
    /\ Has(request.params, "mark_as_paid")
    /\ Truthy(Get(request.params, "mark_as_paid"))

\* C36: a create_and_send_facture call with mark_as_paid=true marks the new
\* invoice as paid (a mutation-service PUT with payment_status paid) after
\* the invoice is created and before the PDF generation call is issued.
C36_MarkedAsPaidBeforeThePdf ==
    MarkAsPaidRequested =>
        \A k \in 1..Len(calls) :
            calls[k] = Call("doc", "/generate/facture") =>
                \E i \in 1..k, j \in 1..k :
                    /\ i < j
                    /\ calls[i] = Call("db", "POST /facture/create")
                    /\ calls[j] = Call("db", "PUT /facture/{id} payment_status=paid")


\* The modules that define a tool of the given name.
DefinedIn(name) ==
    {ImportOrder[k] : k \in {i \in 1..Len(ImportOrder) :
                                \E r \in 1..Len(Registrations(ImportOrder[i])) :
                                    Registrations(ImportOrder[i])[r].name = name}}

\* C37: once the startup imports are done, for every tool name that more
\* than one module defines, the schema ALL_TOOL_SCHEMAS holds for validation
\* and discovery and the handler TOOL_REGISTRY holds for dispatch come from
\* the same module.
C37_SchemaAndHandlerOfOneModule ==
    phase # "import" =>
        \A name \in DOMAIN TOOL_REGISTRY \cap DOMAIN ALL_TOOL_SCHEMAS :
            Cardinality(DefinedIn(name)) > 1 =>
                ALL_TOOL_SCHEMAS[name].module = TOOL_REGISTRY[name].handler


\* C38: process_validation_response never resumes the workflow of a request
\* whose expires_at has passed, even when the periodic sweep has not marked
\* the request timed_out yet.
C38_ExpiredRequestIsNotResumed ==
    [][\A k \in 1..Len(resumed') :
          k > Len(resumed) =>
              get_hitl_request(hitl_requests, resumed'[k].request_id)[1].expires_at >= now]_vars


\* Field f is required by the schema of the requested tool and supplied with
\* a null value.
NullRequired(f) ==
    /\ \E i \in 1..Len(ALL_TOOL_SCHEMAS[request.tool_name].input_schema.required) :
          ALL_TOOL_SCHEMAS[request.tool_name].input_schema.required[i] = f
    /\ Has(request.params, f)
    /\ Get(request.params, f) = NullV

\* Every required field is among the params, and every declared field with
\* a non-null value holds a value of its declared type and enum.
NothingElseWrong ==
    LET schema == ALL_TOOL_SCHEMAS[request.tool_name].input_schema
        Matches(value, type) ==
            CASE type = "string" -> value.t = "str"
              [] type = "number" -> value.t \in {"int", "float"}
              [] type = "integer" -> value.t = "int"
              [] type = "boolean" -> value.t = "bool"
              [] type = "object" -> value.t = "dict"
              [] type = "array" -> value.t = "list"
              [] OTHER -> TRUE
    IN  /\ \A i \in 1..Len(schema.required) : Has(request.params, schema.required[i])
        /\ \A i \in 1..Len(request.params) :
              (request.params[i].k \in DOMAIN schema.properties /\ request.params[i].v # NullV)
              => /\ Matches(request.params[i].v, schema.properties[request.params[i].k].type)
                 /\ schema.properties[request.params[i].k].enum # {}
                       => request.params[i].v \in schema.properties[request.params[i].k].enum

\* C39: validate_params takes a required field for present by key membership
\* alone: a required field supplied with a null value yields no error of any
\* kind for it, so params with nothing else wrong pass validation and are
\* dispatched.
C39_NullRequiredFieldPasses ==
    (phase \in {"running", "done"} /\ request.tool_name \in DOMAIN ALL_TOOL_SCHEMAS) =>
        \A f \in Keys(request.params) :
            NullRequired(f) =>
                /\ response.status = 422 =>
                      \A j \in 1..Len(response.detail.errors) : response.detail.errors[j].field # f
                /\ NothingElseWrong =>
                      /\ response.detail.message # "Parameter validation failed"
                      /\ request.tool_name \in DOMAIN TOOL_REGISTRY => dispatched

C39_Witness ==
    /\ phase = "done"
    /\ request.tool_name = "create_facture"
    /\ NullRequired("qualification_id")
    /\ dispatched
    /\ calls = << Call("db", "POST /facture/create") >>
    /\ response.status = 200

====
